---- MODULE Spec2Model ----
(***************************************************************************)
(* A model of the resume tailoring service: the generate-resume endpoint   *)
(* (keyword extraction, resume sectioning, section enhancement,            *)
(* reconstruction, validation of the summarizer's output, match score)     *)
(* and the save-resume endpoint (three document inserts, two metadata      *)
(* inserts).                                                               *)
(*                                                                         *)
(* A text is a sequence of characters, each character a one-character      *)
(* string; the bullet U+2022 is the character Bullet.  Labels that the     *)
(* code never inspects (service names, improvement lines, error messages)  *)
(* are plain strings.                                                      *)
(***************************************************************************)
EXTENDS Integers, Sequences, FiniteSets, TLC

(***************************************************************************)
(* Characters and the string primitives of the JavaScript runtime.         *)
(***************************************************************************)
Bullet == "<U+2022>"

LowerSeq ==
  << "a","b","c","d","e","f","g","h","i","j","k","l","m",
     "n","o","p","q","r","s","t","u","v","w","x","y","z" >>

UpperSeq ==
  << "A","B","C","D","E","F","G","H","I","J","K","L","M",
     "N","O","P","Q","R","S","T","U","V","W","X","Y","Z" >>

LowerSet == { LowerSeq[i] : i \in DOMAIN LowerSeq }

UpperSet == { UpperSeq[i] : i \in DOMAIN UpperSeq }

DigitSet == { "0","1","2","3","4","5","6","7","8","9" }

\* \s of a regular expression, and the characters trim() strips: the white
\* space and the line terminators of the language (TAB, VT, FF, SP, NBSP,
\* ZWNBSP, the space separators of Unicode, LF, CR, LS, PS)
SpaceSet ==
  {
    " ", "\n", "\t", "\r", "\f", "<U+000B>",
    "<U+00A0>", "<U+1680>", "<U+2000>", "<U+2001>", "<U+2002>", "<U+2003>",
    "<U+2004>", "<U+2005>", "<U+2006>", "<U+2007>", "<U+2008>", "<U+2009>",
    "<U+200A>", "<U+2028>", "<U+2029>", "<U+202F>", "<U+205F>", "<U+3000>",
    "<U+FEFF>"
  }

\* the characters outside A-Z that toLowerCase() maps to one other character
\* (the Basic Multilingual Plane), and what it maps each to
OtherUpperSeq ==
  <<
     "<U+00C0>", "<U+00C1>", "<U+00C2>", "<U+00C3>", "<U+00C4>", "<U+00C5>",
     "<U+00C6>", "<U+00C7>", "<U+00C8>", "<U+00C9>", "<U+00CA>", "<U+00CB>",
     "<U+00CC>", "<U+00CD>", "<U+00CE>", "<U+00CF>", "<U+00D0>", "<U+00D1>",
     "<U+00D2>", "<U+00D3>", "<U+00D4>", "<U+00D5>", "<U+00D6>", "<U+00D8>",
     "<U+00D9>", "<U+00DA>", "<U+00DB>", "<U+00DC>", "<U+00DD>", "<U+00DE>",
     "<U+0100>", "<U+0102>", "<U+0104>", "<U+0106>", "<U+0108>", "<U+010A>",
     "<U+010C>", "<U+010E>", "<U+0110>", "<U+0112>", "<U+0114>", "<U+0116>",
     "<U+0118>", "<U+011A>", "<U+011C>", "<U+011E>", "<U+0120>", "<U+0122>",
     "<U+0124>", "<U+0126>", "<U+0128>", "<U+012A>", "<U+012C>", "<U+012E>",
     "<U+0132>", "<U+0134>", "<U+0136>", "<U+0139>", "<U+013B>", "<U+013D>",
     "<U+013F>", "<U+0141>", "<U+0143>", "<U+0145>", "<U+0147>", "<U+014A>",
     "<U+014C>", "<U+014E>", "<U+0150>", "<U+0152>", "<U+0154>", "<U+0156>",
     "<U+0158>", "<U+015A>", "<U+015C>", "<U+015E>", "<U+0160>", "<U+0162>",
     "<U+0164>", "<U+0166>", "<U+0168>", "<U+016A>", "<U+016C>", "<U+016E>",
     "<U+0170>", "<U+0172>", "<U+0174>", "<U+0176>", "<U+0178>", "<U+0179>",
     "<U+017B>", "<U+017D>", "<U+0181>", "<U+0182>", "<U+0184>", "<U+0186>",
     "<U+0187>", "<U+0189>", "<U+018A>", "<U+018B>", "<U+018E>", "<U+018F>",
     "<U+0190>", "<U+0191>", "<U+0193>", "<U+0194>", "<U+0196>", "<U+0197>",
     "<U+0198>", "<U+019C>", "<U+019D>", "<U+019F>", "<U+01A0>", "<U+01A2>",
     "<U+01A4>", "<U+01A6>", "<U+01A7>", "<U+01A9>", "<U+01AC>", "<U+01AE>",
     "<U+01AF>", "<U+01B1>", "<U+01B2>", "<U+01B3>", "<U+01B5>", "<U+01B7>",
     "<U+01B8>", "<U+01BC>", "<U+01C4>", "<U+01C5>", "<U+01C7>", "<U+01C8>",
     "<U+01CA>", "<U+01CB>", "<U+01CD>", "<U+01CF>", "<U+01D1>", "<U+01D3>",
     "<U+01D5>", "<U+01D7>", "<U+01D9>", "<U+01DB>", "<U+01DE>", "<U+01E0>",
     "<U+01E2>", "<U+01E4>", "<U+01E6>", "<U+01E8>", "<U+01EA>", "<U+01EC>",
     "<U+01EE>", "<U+01F1>", "<U+01F2>", "<U+01F4>", "<U+01F6>", "<U+01F7>",
     "<U+01F8>", "<U+01FA>", "<U+01FC>", "<U+01FE>", "<U+0200>", "<U+0202>",
     "<U+0204>", "<U+0206>", "<U+0208>", "<U+020A>", "<U+020C>", "<U+020E>",
     "<U+0210>", "<U+0212>", "<U+0214>", "<U+0216>", "<U+0218>", "<U+021A>",
     "<U+021C>", "<U+021E>", "<U+0220>", "<U+0222>", "<U+0224>", "<U+0226>",
     "<U+0228>", "<U+022A>", "<U+022C>", "<U+022E>", "<U+0230>", "<U+0232>",
     "<U+023A>", "<U+023B>", "<U+023D>", "<U+023E>", "<U+0241>", "<U+0243>",
     "<U+0244>", "<U+0245>", "<U+0246>", "<U+0248>", "<U+024A>", "<U+024C>",
     "<U+024E>", "<U+0370>", "<U+0372>", "<U+0376>", "<U+037F>", "<U+0386>",
     "<U+0388>", "<U+0389>", "<U+038A>", "<U+038C>", "<U+038E>", "<U+038F>",
     "<U+0391>", "<U+0392>", "<U+0393>", "<U+0394>", "<U+0395>", "<U+0396>",
     "<U+0397>", "<U+0398>", "<U+0399>", "<U+039A>", "<U+039B>", "<U+039C>",
     "<U+039D>", "<U+039E>", "<U+039F>", "<U+03A0>", "<U+03A1>", "<U+03A4>",
     "<U+03A5>", "<U+03A6>", "<U+03A7>", "<U+03A8>", "<U+03A9>", "<U+03AA>",
     "<U+03AB>", "<U+03CF>", "<U+03D8>", "<U+03DA>", "<U+03DC>", "<U+03DE>",
     "<U+03E0>", "<U+03E2>", "<U+03E4>", "<U+03E6>", "<U+03E8>", "<U+03EA>",
     "<U+03EC>", "<U+03EE>", "<U+03F4>", "<U+03F7>", "<U+03F9>", "<U+03FA>",
     "<U+03FD>", "<U+03FE>", "<U+03FF>", "<U+0400>", "<U+0401>", "<U+0402>",
     "<U+0403>", "<U+0404>", "<U+0405>", "<U+0406>", "<U+0407>", "<U+0408>",
     "<U+0409>", "<U+040A>", "<U+040B>", "<U+040C>", "<U+040D>", "<U+040E>",
     "<U+040F>", "<U+0410>", "<U+0411>", "<U+0412>", "<U+0413>", "<U+0414>",
     "<U+0415>", "<U+0416>", "<U+0417>", "<U+0418>", "<U+0419>", "<U+041A>",
     "<U+041B>", "<U+041C>", "<U+041D>", "<U+041E>", "<U+041F>", "<U+0420>",
     "<U+0421>", "<U+0422>", "<U+0423>", "<U+0424>", "<U+0425>", "<U+0426>",
     "<U+0427>", "<U+0428>", "<U+0429>", "<U+042A>", "<U+042B>", "<U+042C>",
     "<U+042D>", "<U+042E>", "<U+042F>", "<U+0460>", "<U+0462>", "<U+0464>",
     "<U+0466>", "<U+0468>", "<U+046A>", "<U+046C>", "<U+046E>", "<U+0470>",
     "<U+0472>", "<U+0474>", "<U+0476>", "<U+0478>", "<U+047A>", "<U+047C>",
     "<U+047E>", "<U+0480>", "<U+048A>", "<U+048C>", "<U+048E>", "<U+0490>",
     "<U+0492>", "<U+0494>", "<U+0496>", "<U+0498>", "<U+049A>", "<U+049C>",
     "<U+049E>", "<U+04A0>", "<U+04A2>", "<U+04A4>", "<U+04A6>", "<U+04A8>",
     "<U+04AA>", "<U+04AC>", "<U+04AE>", "<U+04B0>", "<U+04B2>", "<U+04B4>",
     "<U+04B6>", "<U+04B8>", "<U+04BA>", "<U+04BC>", "<U+04BE>", "<U+04C0>",
     "<U+04C1>", "<U+04C3>", "<U+04C5>", "<U+04C7>", "<U+04C9>", "<U+04CB>",
     "<U+04CD>", "<U+04D0>", "<U+04D2>", "<U+04D4>", "<U+04D6>", "<U+04D8>",
     "<U+04DA>", "<U+04DC>", "<U+04DE>", "<U+04E0>", "<U+04E2>", "<U+04E4>",
     "<U+04E6>", "<U+04E8>", "<U+04EA>", "<U+04EC>", "<U+04EE>", "<U+04F0>",
     "<U+04F2>", "<U+04F4>", "<U+04F6>", "<U+04F8>", "<U+04FA>", "<U+04FC>",
     "<U+04FE>", "<U+0500>", "<U+0502>", "<U+0504>", "<U+0506>", "<U+0508>",
     "<U+050A>", "<U+050C>", "<U+050E>", "<U+0510>", "<U+0512>", "<U+0514>",
     "<U+0516>", "<U+0518>", "<U+051A>", "<U+051C>", "<U+051E>", "<U+0520>",
     "<U+0522>", "<U+0524>", "<U+0526>", "<U+0528>", "<U+052A>", "<U+052C>",
     "<U+052E>", "<U+0531>", "<U+0532>", "<U+0533>", "<U+0534>", "<U+0535>",
     "<U+0536>", "<U+0537>", "<U+0538>", "<U+0539>", "<U+053A>", "<U+053B>",
     "<U+053C>", "<U+053D>", "<U+053E>", "<U+053F>", "<U+0540>", "<U+0541>",
     "<U+0542>", "<U+0543>", "<U+0544>", "<U+0545>", "<U+0546>", "<U+0547>",
     "<U+0548>", "<U+0549>", "<U+054A>", "<U+054B>", "<U+054C>", "<U+054D>",
     "<U+054E>", "<U+054F>", "<U+0550>", "<U+0551>", "<U+0552>", "<U+0553>",
     "<U+0554>", "<U+0555>", "<U+0556>", "<U+10A0>", "<U+10A1>", "<U+10A2>",
     "<U+10A3>", "<U+10A4>", "<U+10A5>", "<U+10A6>", "<U+10A7>", "<U+10A8>",
     "<U+10A9>", "<U+10AA>", "<U+10AB>", "<U+10AC>", "<U+10AD>", "<U+10AE>",
     "<U+10AF>", "<U+10B0>", "<U+10B1>", "<U+10B2>", "<U+10B3>", "<U+10B4>",
     "<U+10B5>", "<U+10B6>", "<U+10B7>", "<U+10B8>", "<U+10B9>", "<U+10BA>",
     "<U+10BB>", "<U+10BC>", "<U+10BD>", "<U+10BE>", "<U+10BF>", "<U+10C0>",
     "<U+10C1>", "<U+10C2>", "<U+10C3>", "<U+10C4>", "<U+10C5>", "<U+10C7>",
     "<U+10CD>", "<U+13A0>", "<U+13A1>", "<U+13A2>", "<U+13A3>", "<U+13A4>",
     "<U+13A5>", "<U+13A6>", "<U+13A7>", "<U+13A8>", "<U+13A9>", "<U+13AA>",
     "<U+13AB>", "<U+13AC>", "<U+13AD>", "<U+13AE>", "<U+13AF>", "<U+13B0>",
     "<U+13B1>", "<U+13B2>", "<U+13B3>", "<U+13B4>", "<U+13B5>", "<U+13B6>",
     "<U+13B7>", "<U+13B8>", "<U+13B9>", "<U+13BA>", "<U+13BB>", "<U+13BC>",
     "<U+13BD>", "<U+13BE>", "<U+13BF>", "<U+13C0>", "<U+13C1>", "<U+13C2>",
     "<U+13C3>", "<U+13C4>", "<U+13C5>", "<U+13C6>", "<U+13C7>", "<U+13C8>",
     "<U+13C9>", "<U+13CA>", "<U+13CB>", "<U+13CC>", "<U+13CD>", "<U+13CE>",
     "<U+13CF>", "<U+13D0>", "<U+13D1>", "<U+13D2>", "<U+13D3>", "<U+13D4>",
     "<U+13D5>", "<U+13D6>", "<U+13D7>", "<U+13D8>", "<U+13D9>", "<U+13DA>",
     "<U+13DB>", "<U+13DC>", "<U+13DD>", "<U+13DE>", "<U+13DF>", "<U+13E0>",
     "<U+13E1>", "<U+13E2>", "<U+13E3>", "<U+13E4>", "<U+13E5>", "<U+13E6>",
     "<U+13E7>", "<U+13E8>", "<U+13E9>", "<U+13EA>", "<U+13EB>", "<U+13EC>",
     "<U+13ED>", "<U+13EE>", "<U+13EF>", "<U+13F0>", "<U+13F1>", "<U+13F2>",
     "<U+13F3>", "<U+13F4>", "<U+13F5>", "<U+1C89>", "<U+1C90>", "<U+1C91>",
     "<U+1C92>", "<U+1C93>", "<U+1C94>", "<U+1C95>", "<U+1C96>", "<U+1C97>",
     "<U+1C98>", "<U+1C99>", "<U+1C9A>", "<U+1C9B>", "<U+1C9C>", "<U+1C9D>",
     "<U+1C9E>", "<U+1C9F>", "<U+1CA0>", "<U+1CA1>", "<U+1CA2>", "<U+1CA3>",
     "<U+1CA4>", "<U+1CA5>", "<U+1CA6>", "<U+1CA7>", "<U+1CA8>", "<U+1CA9>",
     "<U+1CAA>", "<U+1CAB>", "<U+1CAC>", "<U+1CAD>", "<U+1CAE>", "<U+1CAF>",
     "<U+1CB0>", "<U+1CB1>", "<U+1CB2>", "<U+1CB3>", "<U+1CB4>", "<U+1CB5>",
     "<U+1CB6>", "<U+1CB7>", "<U+1CB8>", "<U+1CB9>", "<U+1CBA>", "<U+1CBD>",
     "<U+1CBE>", "<U+1CBF>", "<U+1E00>", "<U+1E02>", "<U+1E04>", "<U+1E06>",
     "<U+1E08>", "<U+1E0A>", "<U+1E0C>", "<U+1E0E>", "<U+1E10>", "<U+1E12>",
     "<U+1E14>", "<U+1E16>", "<U+1E18>", "<U+1E1A>", "<U+1E1C>", "<U+1E1E>",
     "<U+1E20>", "<U+1E22>", "<U+1E24>", "<U+1E26>", "<U+1E28>", "<U+1E2A>",
     "<U+1E2C>", "<U+1E2E>", "<U+1E30>", "<U+1E32>", "<U+1E34>", "<U+1E36>",
     "<U+1E38>", "<U+1E3A>", "<U+1E3C>", "<U+1E3E>", "<U+1E40>", "<U+1E42>",
     "<U+1E44>", "<U+1E46>", "<U+1E48>", "<U+1E4A>", "<U+1E4C>", "<U+1E4E>",
     "<U+1E50>", "<U+1E52>", "<U+1E54>", "<U+1E56>", "<U+1E58>", "<U+1E5A>",
     "<U+1E5C>", "<U+1E5E>", "<U+1E60>", "<U+1E62>", "<U+1E64>", "<U+1E66>",
     "<U+1E68>", "<U+1E6A>", "<U+1E6C>", "<U+1E6E>", "<U+1E70>", "<U+1E72>",
     "<U+1E74>", "<U+1E76>", "<U+1E78>", "<U+1E7A>", "<U+1E7C>", "<U+1E7E>",
     "<U+1E80>", "<U+1E82>", "<U+1E84>", "<U+1E86>", "<U+1E88>", "<U+1E8A>",
     "<U+1E8C>", "<U+1E8E>", "<U+1E90>", "<U+1E92>", "<U+1E94>", "<U+1E9E>",
     "<U+1EA0>", "<U+1EA2>", "<U+1EA4>", "<U+1EA6>", "<U+1EA8>", "<U+1EAA>",
     "<U+1EAC>", "<U+1EAE>", "<U+1EB0>", "<U+1EB2>", "<U+1EB4>", "<U+1EB6>",
     "<U+1EB8>", "<U+1EBA>", "<U+1EBC>", "<U+1EBE>", "<U+1EC0>", "<U+1EC2>",
     "<U+1EC4>", "<U+1EC6>", "<U+1EC8>", "<U+1ECA>", "<U+1ECC>", "<U+1ECE>",
     "<U+1ED0>", "<U+1ED2>", "<U+1ED4>", "<U+1ED6>", "<U+1ED8>", "<U+1EDA>",
     "<U+1EDC>", "<U+1EDE>", "<U+1EE0>", "<U+1EE2>", "<U+1EE4>", "<U+1EE6>",
     "<U+1EE8>", "<U+1EEA>", "<U+1EEC>", "<U+1EEE>", "<U+1EF0>", "<U+1EF2>",
     "<U+1EF4>", "<U+1EF6>", "<U+1EF8>", "<U+1EFA>", "<U+1EFC>", "<U+1EFE>",
     "<U+1F08>", "<U+1F09>", "<U+1F0A>", "<U+1F0B>", "<U+1F0C>", "<U+1F0D>",
     "<U+1F0E>", "<U+1F0F>", "<U+1F18>", "<U+1F19>", "<U+1F1A>", "<U+1F1B>",
     "<U+1F1C>", "<U+1F1D>", "<U+1F28>", "<U+1F29>", "<U+1F2A>", "<U+1F2B>",
     "<U+1F2C>", "<U+1F2D>", "<U+1F2E>", "<U+1F2F>", "<U+1F38>", "<U+1F39>",
     "<U+1F3A>", "<U+1F3B>", "<U+1F3C>", "<U+1F3D>", "<U+1F3E>", "<U+1F3F>",
     "<U+1F48>", "<U+1F49>", "<U+1F4A>", "<U+1F4B>", "<U+1F4C>", "<U+1F4D>",
     "<U+1F59>", "<U+1F5B>", "<U+1F5D>", "<U+1F5F>", "<U+1F68>", "<U+1F69>",
     "<U+1F6A>", "<U+1F6B>", "<U+1F6C>", "<U+1F6D>", "<U+1F6E>", "<U+1F6F>",
     "<U+1F88>", "<U+1F89>", "<U+1F8A>", "<U+1F8B>", "<U+1F8C>", "<U+1F8D>",
     "<U+1F8E>", "<U+1F8F>", "<U+1F98>", "<U+1F99>", "<U+1F9A>", "<U+1F9B>",
     "<U+1F9C>", "<U+1F9D>", "<U+1F9E>", "<U+1F9F>", "<U+1FA8>", "<U+1FA9>",
     "<U+1FAA>", "<U+1FAB>", "<U+1FAC>", "<U+1FAD>", "<U+1FAE>", "<U+1FAF>",
     "<U+1FB8>", "<U+1FB9>", "<U+1FBA>", "<U+1FBB>", "<U+1FBC>", "<U+1FC8>",
     "<U+1FC9>", "<U+1FCA>", "<U+1FCB>", "<U+1FCC>", "<U+1FD8>", "<U+1FD9>",
     "<U+1FDA>", "<U+1FDB>", "<U+1FE8>", "<U+1FE9>", "<U+1FEA>", "<U+1FEB>",
     "<U+1FEC>", "<U+1FF8>", "<U+1FF9>", "<U+1FFA>", "<U+1FFB>", "<U+1FFC>",
     "<U+2126>", "<U+212A>", "<U+212B>", "<U+2132>", "<U+2160>", "<U+2161>",
     "<U+2162>", "<U+2163>", "<U+2164>", "<U+2165>", "<U+2166>", "<U+2167>",
     "<U+2168>", "<U+2169>", "<U+216A>", "<U+216B>", "<U+216C>", "<U+216D>",
     "<U+216E>", "<U+216F>", "<U+2183>", "<U+24B6>", "<U+24B7>", "<U+24B8>",
     "<U+24B9>", "<U+24BA>", "<U+24BB>", "<U+24BC>", "<U+24BD>", "<U+24BE>",
     "<U+24BF>", "<U+24C0>", "<U+24C1>", "<U+24C2>", "<U+24C3>", "<U+24C4>",
     "<U+24C5>", "<U+24C6>", "<U+24C7>", "<U+24C8>", "<U+24C9>", "<U+24CA>",
     "<U+24CB>", "<U+24CC>", "<U+24CD>", "<U+24CE>", "<U+24CF>", "<U+2C00>",
     "<U+2C01>", "<U+2C02>", "<U+2C03>", "<U+2C04>", "<U+2C05>", "<U+2C06>",
     "<U+2C07>", "<U+2C08>", "<U+2C09>", "<U+2C0A>", "<U+2C0B>", "<U+2C0C>",
     "<U+2C0D>", "<U+2C0E>", "<U+2C0F>", "<U+2C10>", "<U+2C11>", "<U+2C12>",
     "<U+2C13>", "<U+2C14>", "<U+2C15>", "<U+2C16>", "<U+2C17>", "<U+2C18>",
     "<U+2C19>", "<U+2C1A>", "<U+2C1B>", "<U+2C1C>", "<U+2C1D>", "<U+2C1E>",
     "<U+2C1F>", "<U+2C20>", "<U+2C21>", "<U+2C22>", "<U+2C23>", "<U+2C24>",
     "<U+2C25>", "<U+2C26>", "<U+2C27>", "<U+2C28>", "<U+2C29>", "<U+2C2A>",
     "<U+2C2B>", "<U+2C2C>", "<U+2C2D>", "<U+2C2E>", "<U+2C2F>", "<U+2C60>",
     "<U+2C62>", "<U+2C63>", "<U+2C64>", "<U+2C67>", "<U+2C69>", "<U+2C6B>",
     "<U+2C6D>", "<U+2C6E>", "<U+2C6F>", "<U+2C70>", "<U+2C72>", "<U+2C75>",
     "<U+2C7E>", "<U+2C7F>", "<U+2C80>", "<U+2C82>", "<U+2C84>", "<U+2C86>",
     "<U+2C88>", "<U+2C8A>", "<U+2C8C>", "<U+2C8E>", "<U+2C90>", "<U+2C92>",
     "<U+2C94>", "<U+2C96>", "<U+2C98>", "<U+2C9A>", "<U+2C9C>", "<U+2C9E>",
     "<U+2CA0>", "<U+2CA2>", "<U+2CA4>", "<U+2CA6>", "<U+2CA8>", "<U+2CAA>",
     "<U+2CAC>", "<U+2CAE>", "<U+2CB0>", "<U+2CB2>", "<U+2CB4>", "<U+2CB6>",
     "<U+2CB8>", "<U+2CBA>", "<U+2CBC>", "<U+2CBE>", "<U+2CC0>", "<U+2CC2>",
     "<U+2CC4>", "<U+2CC6>", "<U+2CC8>", "<U+2CCA>", "<U+2CCC>", "<U+2CCE>",
     "<U+2CD0>", "<U+2CD2>", "<U+2CD4>", "<U+2CD6>", "<U+2CD8>", "<U+2CDA>",
     "<U+2CDC>", "<U+2CDE>", "<U+2CE0>", "<U+2CE2>", "<U+2CEB>", "<U+2CED>",
     "<U+2CF2>", "<U+A640>", "<U+A642>", "<U+A644>", "<U+A646>", "<U+A648>",
     "<U+A64A>", "<U+A64C>", "<U+A64E>", "<U+A650>", "<U+A652>", "<U+A654>",
     "<U+A656>", "<U+A658>", "<U+A65A>", "<U+A65C>", "<U+A65E>", "<U+A660>",
     "<U+A662>", "<U+A664>", "<U+A666>", "<U+A668>", "<U+A66A>", "<U+A66C>",
     "<U+A680>", "<U+A682>", "<U+A684>", "<U+A686>", "<U+A688>", "<U+A68A>",
     "<U+A68C>", "<U+A68E>", "<U+A690>", "<U+A692>", "<U+A694>", "<U+A696>",
     "<U+A698>", "<U+A69A>", "<U+A722>", "<U+A724>", "<U+A726>", "<U+A728>",
     "<U+A72A>", "<U+A72C>", "<U+A72E>", "<U+A732>", "<U+A734>", "<U+A736>",
     "<U+A738>", "<U+A73A>", "<U+A73C>", "<U+A73E>", "<U+A740>", "<U+A742>",
     "<U+A744>", "<U+A746>", "<U+A748>", "<U+A74A>", "<U+A74C>", "<U+A74E>",
     "<U+A750>", "<U+A752>", "<U+A754>", "<U+A756>", "<U+A758>", "<U+A75A>",
     "<U+A75C>", "<U+A75E>", "<U+A760>", "<U+A762>", "<U+A764>", "<U+A766>",
     "<U+A768>", "<U+A76A>", "<U+A76C>", "<U+A76E>", "<U+A779>", "<U+A77B>",
     "<U+A77D>", "<U+A77E>", "<U+A780>", "<U+A782>", "<U+A784>", "<U+A786>",
     "<U+A78B>", "<U+A78D>", "<U+A790>", "<U+A792>", "<U+A796>", "<U+A798>",
     "<U+A79A>", "<U+A79C>", "<U+A79E>", "<U+A7A0>", "<U+A7A2>", "<U+A7A4>",
     "<U+A7A6>", "<U+A7A8>", "<U+A7AA>", "<U+A7AB>", "<U+A7AC>", "<U+A7AD>",
     "<U+A7AE>", "<U+A7B0>", "<U+A7B1>", "<U+A7B2>", "<U+A7B3>", "<U+A7B4>",
     "<U+A7B6>", "<U+A7B8>", "<U+A7BA>", "<U+A7BC>", "<U+A7BE>", "<U+A7C0>",
     "<U+A7C2>", "<U+A7C4>", "<U+A7C5>", "<U+A7C6>", "<U+A7C7>", "<U+A7C9>",
     "<U+A7CB>", "<U+A7CC>", "<U+A7CE>", "<U+A7D0>", "<U+A7D2>", "<U+A7D4>",
     "<U+A7D6>", "<U+A7D8>", "<U+A7DA>", "<U+A7DC>", "<U+A7F5>", "<U+FF21>",
     "<U+FF22>", "<U+FF23>", "<U+FF24>", "<U+FF25>", "<U+FF26>", "<U+FF27>",
     "<U+FF28>", "<U+FF29>", "<U+FF2A>", "<U+FF2B>", "<U+FF2C>", "<U+FF2D>",
     "<U+FF2E>", "<U+FF2F>", "<U+FF30>", "<U+FF31>", "<U+FF32>", "<U+FF33>",
     "<U+FF34>", "<U+FF35>", "<U+FF36>", "<U+FF37>", "<U+FF38>", "<U+FF39>",
     "<U+FF3A>"
  >>

OtherUpperToLowerSeq ==
  <<
     "<U+00E0>", "<U+00E1>", "<U+00E2>", "<U+00E3>", "<U+00E4>", "<U+00E5>",
     "<U+00E6>", "<U+00E7>", "<U+00E8>", "<U+00E9>", "<U+00EA>", "<U+00EB>",
     "<U+00EC>", "<U+00ED>", "<U+00EE>", "<U+00EF>", "<U+00F0>", "<U+00F1>",
     "<U+00F2>", "<U+00F3>", "<U+00F4>", "<U+00F5>", "<U+00F6>", "<U+00F8>",
     "<U+00F9>", "<U+00FA>", "<U+00FB>", "<U+00FC>", "<U+00FD>", "<U+00FE>",
     "<U+0101>", "<U+0103>", "<U+0105>", "<U+0107>", "<U+0109>", "<U+010B>",
     "<U+010D>", "<U+010F>", "<U+0111>", "<U+0113>", "<U+0115>", "<U+0117>",
     "<U+0119>", "<U+011B>", "<U+011D>", "<U+011F>", "<U+0121>", "<U+0123>",
     "<U+0125>", "<U+0127>", "<U+0129>", "<U+012B>", "<U+012D>", "<U+012F>",
     "<U+0133>", "<U+0135>", "<U+0137>", "<U+013A>", "<U+013C>", "<U+013E>",
     "<U+0140>", "<U+0142>", "<U+0144>", "<U+0146>", "<U+0148>", "<U+014B>",
     "<U+014D>", "<U+014F>", "<U+0151>", "<U+0153>", "<U+0155>", "<U+0157>",
     "<U+0159>", "<U+015B>", "<U+015D>", "<U+015F>", "<U+0161>", "<U+0163>",
     "<U+0165>", "<U+0167>", "<U+0169>", "<U+016B>", "<U+016D>", "<U+016F>",
     "<U+0171>", "<U+0173>", "<U+0175>", "<U+0177>", "<U+00FF>", "<U+017A>",
     "<U+017C>", "<U+017E>", "<U+0253>", "<U+0183>", "<U+0185>", "<U+0254>",
     "<U+0188>", "<U+0256>", "<U+0257>", "<U+018C>", "<U+01DD>", "<U+0259>",
     "<U+025B>", "<U+0192>", "<U+0260>", "<U+0263>", "<U+0269>", "<U+0268>",
     "<U+0199>", "<U+026F>", "<U+0272>", "<U+0275>", "<U+01A1>", "<U+01A3>",
     "<U+01A5>", "<U+0280>", "<U+01A8>", "<U+0283>", "<U+01AD>", "<U+0288>",
     "<U+01B0>", "<U+028A>", "<U+028B>", "<U+01B4>", "<U+01B6>", "<U+0292>",
     "<U+01B9>", "<U+01BD>", "<U+01C6>", "<U+01C6>", "<U+01C9>", "<U+01C9>",
     "<U+01CC>", "<U+01CC>", "<U+01CE>", "<U+01D0>", "<U+01D2>", "<U+01D4>",
     "<U+01D6>", "<U+01D8>", "<U+01DA>", "<U+01DC>", "<U+01DF>", "<U+01E1>",
     "<U+01E3>", "<U+01E5>", "<U+01E7>", "<U+01E9>", "<U+01EB>", "<U+01ED>",
     "<U+01EF>", "<U+01F3>", "<U+01F3>", "<U+01F5>", "<U+0195>", "<U+01BF>",
     "<U+01F9>", "<U+01FB>", "<U+01FD>", "<U+01FF>", "<U+0201>", "<U+0203>",
     "<U+0205>", "<U+0207>", "<U+0209>", "<U+020B>", "<U+020D>", "<U+020F>",
     "<U+0211>", "<U+0213>", "<U+0215>", "<U+0217>", "<U+0219>", "<U+021B>",
     "<U+021D>", "<U+021F>", "<U+019E>", "<U+0223>", "<U+0225>", "<U+0227>",
     "<U+0229>", "<U+022B>", "<U+022D>", "<U+022F>", "<U+0231>", "<U+0233>",
     "<U+2C65>", "<U+023C>", "<U+019A>", "<U+2C66>", "<U+0242>", "<U+0180>",
     "<U+0289>", "<U+028C>", "<U+0247>", "<U+0249>", "<U+024B>", "<U+024D>",
     "<U+024F>", "<U+0371>", "<U+0373>", "<U+0377>", "<U+03F3>", "<U+03AC>",
     "<U+03AD>", "<U+03AE>", "<U+03AF>", "<U+03CC>", "<U+03CD>", "<U+03CE>",
     "<U+03B1>", "<U+03B2>", "<U+03B3>", "<U+03B4>", "<U+03B5>", "<U+03B6>",
     "<U+03B7>", "<U+03B8>", "<U+03B9>", "<U+03BA>", "<U+03BB>", "<U+03BC>",
     "<U+03BD>", "<U+03BE>", "<U+03BF>", "<U+03C0>", "<U+03C1>", "<U+03C4>",
     "<U+03C5>", "<U+03C6>", "<U+03C7>", "<U+03C8>", "<U+03C9>", "<U+03CA>",
     "<U+03CB>", "<U+03D7>", "<U+03D9>", "<U+03DB>", "<U+03DD>", "<U+03DF>",
     "<U+03E1>", "<U+03E3>", "<U+03E5>", "<U+03E7>", "<U+03E9>", "<U+03EB>",
     "<U+03ED>", "<U+03EF>", "<U+03B8>", "<U+03F8>", "<U+03F2>", "<U+03FB>",
     "<U+037B>", "<U+037C>", "<U+037D>", "<U+0450>", "<U+0451>", "<U+0452>",
     "<U+0453>", "<U+0454>", "<U+0455>", "<U+0456>", "<U+0457>", "<U+0458>",
     "<U+0459>", "<U+045A>", "<U+045B>", "<U+045C>", "<U+045D>", "<U+045E>",
     "<U+045F>", "<U+0430>", "<U+0431>", "<U+0432>", "<U+0433>", "<U+0434>",
     "<U+0435>", "<U+0436>", "<U+0437>", "<U+0438>", "<U+0439>", "<U+043A>",
     "<U+043B>", "<U+043C>", "<U+043D>", "<U+043E>", "<U+043F>", "<U+0440>",
     "<U+0441>", "<U+0442>", "<U+0443>", "<U+0444>", "<U+0445>", "<U+0446>",
     "<U+0447>", "<U+0448>", "<U+0449>", "<U+044A>", "<U+044B>", "<U+044C>",
     "<U+044D>", "<U+044E>", "<U+044F>", "<U+0461>", "<U+0463>", "<U+0465>",
     "<U+0467>", "<U+0469>", "<U+046B>", "<U+046D>", "<U+046F>", "<U+0471>",
     "<U+0473>", "<U+0475>", "<U+0477>", "<U+0479>", "<U+047B>", "<U+047D>",
     "<U+047F>", "<U+0481>", "<U+048B>", "<U+048D>", "<U+048F>", "<U+0491>",
     "<U+0493>", "<U+0495>", "<U+0497>", "<U+0499>", "<U+049B>", "<U+049D>",
     "<U+049F>", "<U+04A1>", "<U+04A3>", "<U+04A5>", "<U+04A7>", "<U+04A9>",
     "<U+04AB>", "<U+04AD>", "<U+04AF>", "<U+04B1>", "<U+04B3>", "<U+04B5>",
     "<U+04B7>", "<U+04B9>", "<U+04BB>", "<U+04BD>", "<U+04BF>", "<U+04CF>",
     "<U+04C2>", "<U+04C4>", "<U+04C6>", "<U+04C8>", "<U+04CA>", "<U+04CC>",
     "<U+04CE>", "<U+04D1>", "<U+04D3>", "<U+04D5>", "<U+04D7>", "<U+04D9>",
     "<U+04DB>", "<U+04DD>", "<U+04DF>", "<U+04E1>", "<U+04E3>", "<U+04E5>",
     "<U+04E7>", "<U+04E9>", "<U+04EB>", "<U+04ED>", "<U+04EF>", "<U+04F1>",
     "<U+04F3>", "<U+04F5>", "<U+04F7>", "<U+04F9>", "<U+04FB>", "<U+04FD>",
     "<U+04FF>", "<U+0501>", "<U+0503>", "<U+0505>", "<U+0507>", "<U+0509>",
     "<U+050B>", "<U+050D>", "<U+050F>", "<U+0511>", "<U+0513>", "<U+0515>",
     "<U+0517>", "<U+0519>", "<U+051B>", "<U+051D>", "<U+051F>", "<U+0521>",
     "<U+0523>", "<U+0525>", "<U+0527>", "<U+0529>", "<U+052B>", "<U+052D>",
     "<U+052F>", "<U+0561>", "<U+0562>", "<U+0563>", "<U+0564>", "<U+0565>",
     "<U+0566>", "<U+0567>", "<U+0568>", "<U+0569>", "<U+056A>", "<U+056B>",
     "<U+056C>", "<U+056D>", "<U+056E>", "<U+056F>", "<U+0570>", "<U+0571>",
     "<U+0572>", "<U+0573>", "<U+0574>", "<U+0575>", "<U+0576>", "<U+0577>",
     "<U+0578>", "<U+0579>", "<U+057A>", "<U+057B>", "<U+057C>", "<U+057D>",
     "<U+057E>", "<U+057F>", "<U+0580>", "<U+0581>", "<U+0582>", "<U+0583>",
     "<U+0584>", "<U+0585>", "<U+0586>", "<U+2D00>", "<U+2D01>", "<U+2D02>",
     "<U+2D03>", "<U+2D04>", "<U+2D05>", "<U+2D06>", "<U+2D07>", "<U+2D08>",
     "<U+2D09>", "<U+2D0A>", "<U+2D0B>", "<U+2D0C>", "<U+2D0D>", "<U+2D0E>",
     "<U+2D0F>", "<U+2D10>", "<U+2D11>", "<U+2D12>", "<U+2D13>", "<U+2D14>",
     "<U+2D15>", "<U+2D16>", "<U+2D17>", "<U+2D18>", "<U+2D19>", "<U+2D1A>",
     "<U+2D1B>", "<U+2D1C>", "<U+2D1D>", "<U+2D1E>", "<U+2D1F>", "<U+2D20>",
     "<U+2D21>", "<U+2D22>", "<U+2D23>", "<U+2D24>", "<U+2D25>", "<U+2D27>",
     "<U+2D2D>", "<U+AB70>", "<U+AB71>", "<U+AB72>", "<U+AB73>", "<U+AB74>",
     "<U+AB75>", "<U+AB76>", "<U+AB77>", "<U+AB78>", "<U+AB79>", "<U+AB7A>",
     "<U+AB7B>", "<U+AB7C>", "<U+AB7D>", "<U+AB7E>", "<U+AB7F>", "<U+AB80>",
     "<U+AB81>", "<U+AB82>", "<U+AB83>", "<U+AB84>", "<U+AB85>", "<U+AB86>",
     "<U+AB87>", "<U+AB88>", "<U+AB89>", "<U+AB8A>", "<U+AB8B>", "<U+AB8C>",
     "<U+AB8D>", "<U+AB8E>", "<U+AB8F>", "<U+AB90>", "<U+AB91>", "<U+AB92>",
     "<U+AB93>", "<U+AB94>", "<U+AB95>", "<U+AB96>", "<U+AB97>", "<U+AB98>",
     "<U+AB99>", "<U+AB9A>", "<U+AB9B>", "<U+AB9C>", "<U+AB9D>", "<U+AB9E>",
     "<U+AB9F>", "<U+ABA0>", "<U+ABA1>", "<U+ABA2>", "<U+ABA3>", "<U+ABA4>",
     "<U+ABA5>", "<U+ABA6>", "<U+ABA7>", "<U+ABA8>", "<U+ABA9>", "<U+ABAA>",
     "<U+ABAB>", "<U+ABAC>", "<U+ABAD>", "<U+ABAE>", "<U+ABAF>", "<U+ABB0>",
     "<U+ABB1>", "<U+ABB2>", "<U+ABB3>", "<U+ABB4>", "<U+ABB5>", "<U+ABB6>",
     "<U+ABB7>", "<U+ABB8>", "<U+ABB9>", "<U+ABBA>", "<U+ABBB>", "<U+ABBC>",
     "<U+ABBD>", "<U+ABBE>", "<U+ABBF>", "<U+13F8>", "<U+13F9>", "<U+13FA>",
     "<U+13FB>", "<U+13FC>", "<U+13FD>", "<U+1C8A>", "<U+10D0>", "<U+10D1>",
     "<U+10D2>", "<U+10D3>", "<U+10D4>", "<U+10D5>", "<U+10D6>", "<U+10D7>",
     "<U+10D8>", "<U+10D9>", "<U+10DA>", "<U+10DB>", "<U+10DC>", "<U+10DD>",
     "<U+10DE>", "<U+10DF>", "<U+10E0>", "<U+10E1>", "<U+10E2>", "<U+10E3>",
     "<U+10E4>", "<U+10E5>", "<U+10E6>", "<U+10E7>", "<U+10E8>", "<U+10E9>",
     "<U+10EA>", "<U+10EB>", "<U+10EC>", "<U+10ED>", "<U+10EE>", "<U+10EF>",
     "<U+10F0>", "<U+10F1>", "<U+10F2>", "<U+10F3>", "<U+10F4>", "<U+10F5>",
     "<U+10F6>", "<U+10F7>", "<U+10F8>", "<U+10F9>", "<U+10FA>", "<U+10FD>",
     "<U+10FE>", "<U+10FF>", "<U+1E01>", "<U+1E03>", "<U+1E05>", "<U+1E07>",
     "<U+1E09>", "<U+1E0B>", "<U+1E0D>", "<U+1E0F>", "<U+1E11>", "<U+1E13>",
     "<U+1E15>", "<U+1E17>", "<U+1E19>", "<U+1E1B>", "<U+1E1D>", "<U+1E1F>",
     "<U+1E21>", "<U+1E23>", "<U+1E25>", "<U+1E27>", "<U+1E29>", "<U+1E2B>",
     "<U+1E2D>", "<U+1E2F>", "<U+1E31>", "<U+1E33>", "<U+1E35>", "<U+1E37>",
     "<U+1E39>", "<U+1E3B>", "<U+1E3D>", "<U+1E3F>", "<U+1E41>", "<U+1E43>",
     "<U+1E45>", "<U+1E47>", "<U+1E49>", "<U+1E4B>", "<U+1E4D>", "<U+1E4F>",
     "<U+1E51>", "<U+1E53>", "<U+1E55>", "<U+1E57>", "<U+1E59>", "<U+1E5B>",
     "<U+1E5D>", "<U+1E5F>", "<U+1E61>", "<U+1E63>", "<U+1E65>", "<U+1E67>",
     "<U+1E69>", "<U+1E6B>", "<U+1E6D>", "<U+1E6F>", "<U+1E71>", "<U+1E73>",
     "<U+1E75>", "<U+1E77>", "<U+1E79>", "<U+1E7B>", "<U+1E7D>", "<U+1E7F>",
     "<U+1E81>", "<U+1E83>", "<U+1E85>", "<U+1E87>", "<U+1E89>", "<U+1E8B>",
     "<U+1E8D>", "<U+1E8F>", "<U+1E91>", "<U+1E93>", "<U+1E95>", "<U+00DF>",
     "<U+1EA1>", "<U+1EA3>", "<U+1EA5>", "<U+1EA7>", "<U+1EA9>", "<U+1EAB>",
     "<U+1EAD>", "<U+1EAF>", "<U+1EB1>", "<U+1EB3>", "<U+1EB5>", "<U+1EB7>",
     "<U+1EB9>", "<U+1EBB>", "<U+1EBD>", "<U+1EBF>", "<U+1EC1>", "<U+1EC3>",
     "<U+1EC5>", "<U+1EC7>", "<U+1EC9>", "<U+1ECB>", "<U+1ECD>", "<U+1ECF>",
     "<U+1ED1>", "<U+1ED3>", "<U+1ED5>", "<U+1ED7>", "<U+1ED9>", "<U+1EDB>",
     "<U+1EDD>", "<U+1EDF>", "<U+1EE1>", "<U+1EE3>", "<U+1EE5>", "<U+1EE7>",
     "<U+1EE9>", "<U+1EEB>", "<U+1EED>", "<U+1EEF>", "<U+1EF1>", "<U+1EF3>",
     "<U+1EF5>", "<U+1EF7>", "<U+1EF9>", "<U+1EFB>", "<U+1EFD>", "<U+1EFF>",
     "<U+1F00>", "<U+1F01>", "<U+1F02>", "<U+1F03>", "<U+1F04>", "<U+1F05>",
     "<U+1F06>", "<U+1F07>", "<U+1F10>", "<U+1F11>", "<U+1F12>", "<U+1F13>",
     "<U+1F14>", "<U+1F15>", "<U+1F20>", "<U+1F21>", "<U+1F22>", "<U+1F23>",
     "<U+1F24>", "<U+1F25>", "<U+1F26>", "<U+1F27>", "<U+1F30>", "<U+1F31>",
     "<U+1F32>", "<U+1F33>", "<U+1F34>", "<U+1F35>", "<U+1F36>", "<U+1F37>",
     "<U+1F40>", "<U+1F41>", "<U+1F42>", "<U+1F43>", "<U+1F44>", "<U+1F45>",
     "<U+1F51>", "<U+1F53>", "<U+1F55>", "<U+1F57>", "<U+1F60>", "<U+1F61>",
     "<U+1F62>", "<U+1F63>", "<U+1F64>", "<U+1F65>", "<U+1F66>", "<U+1F67>",
     "<U+1F80>", "<U+1F81>", "<U+1F82>", "<U+1F83>", "<U+1F84>", "<U+1F85>",
     "<U+1F86>", "<U+1F87>", "<U+1F90>", "<U+1F91>", "<U+1F92>", "<U+1F93>",
     "<U+1F94>", "<U+1F95>", "<U+1F96>", "<U+1F97>", "<U+1FA0>", "<U+1FA1>",
     "<U+1FA2>", "<U+1FA3>", "<U+1FA4>", "<U+1FA5>", "<U+1FA6>", "<U+1FA7>",
     "<U+1FB0>", "<U+1FB1>", "<U+1F70>", "<U+1F71>", "<U+1FB3>", "<U+1F72>",
     "<U+1F73>", "<U+1F74>", "<U+1F75>", "<U+1FC3>", "<U+1FD0>", "<U+1FD1>",
     "<U+1F76>", "<U+1F77>", "<U+1FE0>", "<U+1FE1>", "<U+1F7A>", "<U+1F7B>",
     "<U+1FE5>", "<U+1F78>", "<U+1F79>", "<U+1F7C>", "<U+1F7D>", "<U+1FF3>",
     "<U+03C9>", "k", "<U+00E5>", "<U+214E>", "<U+2170>", "<U+2171>",
     "<U+2172>", "<U+2173>", "<U+2174>", "<U+2175>", "<U+2176>", "<U+2177>",
     "<U+2178>", "<U+2179>", "<U+217A>", "<U+217B>", "<U+217C>", "<U+217D>",
     "<U+217E>", "<U+217F>", "<U+2184>", "<U+24D0>", "<U+24D1>", "<U+24D2>",
     "<U+24D3>", "<U+24D4>", "<U+24D5>", "<U+24D6>", "<U+24D7>", "<U+24D8>",
     "<U+24D9>", "<U+24DA>", "<U+24DB>", "<U+24DC>", "<U+24DD>", "<U+24DE>",
     "<U+24DF>", "<U+24E0>", "<U+24E1>", "<U+24E2>", "<U+24E3>", "<U+24E4>",
     "<U+24E5>", "<U+24E6>", "<U+24E7>", "<U+24E8>", "<U+24E9>", "<U+2C30>",
     "<U+2C31>", "<U+2C32>", "<U+2C33>", "<U+2C34>", "<U+2C35>", "<U+2C36>",
     "<U+2C37>", "<U+2C38>", "<U+2C39>", "<U+2C3A>", "<U+2C3B>", "<U+2C3C>",
     "<U+2C3D>", "<U+2C3E>", "<U+2C3F>", "<U+2C40>", "<U+2C41>", "<U+2C42>",
     "<U+2C43>", "<U+2C44>", "<U+2C45>", "<U+2C46>", "<U+2C47>", "<U+2C48>",
     "<U+2C49>", "<U+2C4A>", "<U+2C4B>", "<U+2C4C>", "<U+2C4D>", "<U+2C4E>",
     "<U+2C4F>", "<U+2C50>", "<U+2C51>", "<U+2C52>", "<U+2C53>", "<U+2C54>",
     "<U+2C55>", "<U+2C56>", "<U+2C57>", "<U+2C58>", "<U+2C59>", "<U+2C5A>",
     "<U+2C5B>", "<U+2C5C>", "<U+2C5D>", "<U+2C5E>", "<U+2C5F>", "<U+2C61>",
     "<U+026B>", "<U+1D7D>", "<U+027D>", "<U+2C68>", "<U+2C6A>", "<U+2C6C>",
     "<U+0251>", "<U+0271>", "<U+0250>", "<U+0252>", "<U+2C73>", "<U+2C76>",
     "<U+023F>", "<U+0240>", "<U+2C81>", "<U+2C83>", "<U+2C85>", "<U+2C87>",
     "<U+2C89>", "<U+2C8B>", "<U+2C8D>", "<U+2C8F>", "<U+2C91>", "<U+2C93>",
     "<U+2C95>", "<U+2C97>", "<U+2C99>", "<U+2C9B>", "<U+2C9D>", "<U+2C9F>",
     "<U+2CA1>", "<U+2CA3>", "<U+2CA5>", "<U+2CA7>", "<U+2CA9>", "<U+2CAB>",
     "<U+2CAD>", "<U+2CAF>", "<U+2CB1>", "<U+2CB3>", "<U+2CB5>", "<U+2CB7>",
     "<U+2CB9>", "<U+2CBB>", "<U+2CBD>", "<U+2CBF>", "<U+2CC1>", "<U+2CC3>",
     "<U+2CC5>", "<U+2CC7>", "<U+2CC9>", "<U+2CCB>", "<U+2CCD>", "<U+2CCF>",
     "<U+2CD1>", "<U+2CD3>", "<U+2CD5>", "<U+2CD7>", "<U+2CD9>", "<U+2CDB>",
     "<U+2CDD>", "<U+2CDF>", "<U+2CE1>", "<U+2CE3>", "<U+2CEC>", "<U+2CEE>",
     "<U+2CF3>", "<U+A641>", "<U+A643>", "<U+A645>", "<U+A647>", "<U+A649>",
     "<U+A64B>", "<U+A64D>", "<U+A64F>", "<U+A651>", "<U+A653>", "<U+A655>",
     "<U+A657>", "<U+A659>", "<U+A65B>", "<U+A65D>", "<U+A65F>", "<U+A661>",
     "<U+A663>", "<U+A665>", "<U+A667>", "<U+A669>", "<U+A66B>", "<U+A66D>",
     "<U+A681>", "<U+A683>", "<U+A685>", "<U+A687>", "<U+A689>", "<U+A68B>",
     "<U+A68D>", "<U+A68F>", "<U+A691>", "<U+A693>", "<U+A695>", "<U+A697>",
     "<U+A699>", "<U+A69B>", "<U+A723>", "<U+A725>", "<U+A727>", "<U+A729>",
     "<U+A72B>", "<U+A72D>", "<U+A72F>", "<U+A733>", "<U+A735>", "<U+A737>",
     "<U+A739>", "<U+A73B>", "<U+A73D>", "<U+A73F>", "<U+A741>", "<U+A743>",
     "<U+A745>", "<U+A747>", "<U+A749>", "<U+A74B>", "<U+A74D>", "<U+A74F>",
     "<U+A751>", "<U+A753>", "<U+A755>", "<U+A757>", "<U+A759>", "<U+A75B>",
     "<U+A75D>", "<U+A75F>", "<U+A761>", "<U+A763>", "<U+A765>", "<U+A767>",
     "<U+A769>", "<U+A76B>", "<U+A76D>", "<U+A76F>", "<U+A77A>", "<U+A77C>",
     "<U+1D79>", "<U+A77F>", "<U+A781>", "<U+A783>", "<U+A785>", "<U+A787>",
     "<U+A78C>", "<U+0265>", "<U+A791>", "<U+A793>", "<U+A797>", "<U+A799>",
     "<U+A79B>", "<U+A79D>", "<U+A79F>", "<U+A7A1>", "<U+A7A3>", "<U+A7A5>",
     "<U+A7A7>", "<U+A7A9>", "<U+0266>", "<U+025C>", "<U+0261>", "<U+026C>",
     "<U+026A>", "<U+029E>", "<U+0287>", "<U+029D>", "<U+AB53>", "<U+A7B5>",
     "<U+A7B7>", "<U+A7B9>", "<U+A7BB>", "<U+A7BD>", "<U+A7BF>", "<U+A7C1>",
     "<U+A7C3>", "<U+A794>", "<U+0282>", "<U+1D8E>", "<U+A7C8>", "<U+A7CA>",
     "<U+0264>", "<U+A7CD>", "<U+A7CF>", "<U+A7D1>", "<U+A7D3>", "<U+A7D5>",
     "<U+A7D7>", "<U+A7D9>", "<U+A7DB>", "<U+019B>", "<U+A7F6>", "<U+FF41>",
     "<U+FF42>", "<U+FF43>", "<U+FF44>", "<U+FF45>", "<U+FF46>", "<U+FF47>",
     "<U+FF48>", "<U+FF49>", "<U+FF4A>", "<U+FF4B>", "<U+FF4C>", "<U+FF4D>",
     "<U+FF4E>", "<U+FF4F>", "<U+FF50>", "<U+FF51>", "<U+FF52>", "<U+FF53>",
     "<U+FF54>", "<U+FF55>", "<U+FF56>", "<U+FF57>", "<U+FF58>", "<U+FF59>",
     "<U+FF5A>"
  >>

\* the capital letters outside the Basic Multilingual Plane, as a pair of
\* UTF-16 code units, and the second unit of the lowercase letter (the
\* first unit stays)
PairToLower ==
  {
    << "<U+D801>", "<U+DC00>", "<U+DC28>" >>, << "<U+D801>", "<U+DC01>", "<U+DC29>" >>,
    << "<U+D801>", "<U+DC02>", "<U+DC2A>" >>, << "<U+D801>", "<U+DC03>", "<U+DC2B>" >>,
    << "<U+D801>", "<U+DC04>", "<U+DC2C>" >>, << "<U+D801>", "<U+DC05>", "<U+DC2D>" >>,
    << "<U+D801>", "<U+DC06>", "<U+DC2E>" >>, << "<U+D801>", "<U+DC07>", "<U+DC2F>" >>,
    << "<U+D801>", "<U+DC08>", "<U+DC30>" >>, << "<U+D801>", "<U+DC09>", "<U+DC31>" >>,
    << "<U+D801>", "<U+DC0A>", "<U+DC32>" >>, << "<U+D801>", "<U+DC0B>", "<U+DC33>" >>,
    << "<U+D801>", "<U+DC0C>", "<U+DC34>" >>, << "<U+D801>", "<U+DC0D>", "<U+DC35>" >>,
    << "<U+D801>", "<U+DC0E>", "<U+DC36>" >>, << "<U+D801>", "<U+DC0F>", "<U+DC37>" >>,
    << "<U+D801>", "<U+DC10>", "<U+DC38>" >>, << "<U+D801>", "<U+DC11>", "<U+DC39>" >>,
    << "<U+D801>", "<U+DC12>", "<U+DC3A>" >>, << "<U+D801>", "<U+DC13>", "<U+DC3B>" >>,
    << "<U+D801>", "<U+DC14>", "<U+DC3C>" >>, << "<U+D801>", "<U+DC15>", "<U+DC3D>" >>,
    << "<U+D801>", "<U+DC16>", "<U+DC3E>" >>, << "<U+D801>", "<U+DC17>", "<U+DC3F>" >>,
    << "<U+D801>", "<U+DC18>", "<U+DC40>" >>, << "<U+D801>", "<U+DC19>", "<U+DC41>" >>,
    << "<U+D801>", "<U+DC1A>", "<U+DC42>" >>, << "<U+D801>", "<U+DC1B>", "<U+DC43>" >>,
    << "<U+D801>", "<U+DC1C>", "<U+DC44>" >>, << "<U+D801>", "<U+DC1D>", "<U+DC45>" >>,
    << "<U+D801>", "<U+DC1E>", "<U+DC46>" >>, << "<U+D801>", "<U+DC1F>", "<U+DC47>" >>,
    << "<U+D801>", "<U+DC20>", "<U+DC48>" >>, << "<U+D801>", "<U+DC21>", "<U+DC49>" >>,
    << "<U+D801>", "<U+DC22>", "<U+DC4A>" >>, << "<U+D801>", "<U+DC23>", "<U+DC4B>" >>,
    << "<U+D801>", "<U+DC24>", "<U+DC4C>" >>, << "<U+D801>", "<U+DC25>", "<U+DC4D>" >>,
    << "<U+D801>", "<U+DC26>", "<U+DC4E>" >>, << "<U+D801>", "<U+DC27>", "<U+DC4F>" >>,
    << "<U+D801>", "<U+DCB0>", "<U+DCD8>" >>, << "<U+D801>", "<U+DCB1>", "<U+DCD9>" >>,
    << "<U+D801>", "<U+DCB2>", "<U+DCDA>" >>, << "<U+D801>", "<U+DCB3>", "<U+DCDB>" >>,
    << "<U+D801>", "<U+DCB4>", "<U+DCDC>" >>, << "<U+D801>", "<U+DCB5>", "<U+DCDD>" >>,
    << "<U+D801>", "<U+DCB6>", "<U+DCDE>" >>, << "<U+D801>", "<U+DCB7>", "<U+DCDF>" >>,
    << "<U+D801>", "<U+DCB8>", "<U+DCE0>" >>, << "<U+D801>", "<U+DCB9>", "<U+DCE1>" >>,
    << "<U+D801>", "<U+DCBA>", "<U+DCE2>" >>, << "<U+D801>", "<U+DCBB>", "<U+DCE3>" >>,
    << "<U+D801>", "<U+DCBC>", "<U+DCE4>" >>, << "<U+D801>", "<U+DCBD>", "<U+DCE5>" >>,
    << "<U+D801>", "<U+DCBE>", "<U+DCE6>" >>, << "<U+D801>", "<U+DCBF>", "<U+DCE7>" >>,
    << "<U+D801>", "<U+DCC0>", "<U+DCE8>" >>, << "<U+D801>", "<U+DCC1>", "<U+DCE9>" >>,
    << "<U+D801>", "<U+DCC2>", "<U+DCEA>" >>, << "<U+D801>", "<U+DCC3>", "<U+DCEB>" >>,
    << "<U+D801>", "<U+DCC4>", "<U+DCEC>" >>, << "<U+D801>", "<U+DCC5>", "<U+DCED>" >>,
    << "<U+D801>", "<U+DCC6>", "<U+DCEE>" >>, << "<U+D801>", "<U+DCC7>", "<U+DCEF>" >>,
    << "<U+D801>", "<U+DCC8>", "<U+DCF0>" >>, << "<U+D801>", "<U+DCC9>", "<U+DCF1>" >>,
    << "<U+D801>", "<U+DCCA>", "<U+DCF2>" >>, << "<U+D801>", "<U+DCCB>", "<U+DCF3>" >>,
    << "<U+D801>", "<U+DCCC>", "<U+DCF4>" >>, << "<U+D801>", "<U+DCCD>", "<U+DCF5>" >>,
    << "<U+D801>", "<U+DCCE>", "<U+DCF6>" >>, << "<U+D801>", "<U+DCCF>", "<U+DCF7>" >>,
    << "<U+D801>", "<U+DCD0>", "<U+DCF8>" >>, << "<U+D801>", "<U+DCD1>", "<U+DCF9>" >>,
    << "<U+D801>", "<U+DCD2>", "<U+DCFA>" >>, << "<U+D801>", "<U+DCD3>", "<U+DCFB>" >>,
    << "<U+D801>", "<U+DD70>", "<U+DD97>" >>, << "<U+D801>", "<U+DD71>", "<U+DD98>" >>,
    << "<U+D801>", "<U+DD72>", "<U+DD99>" >>, << "<U+D801>", "<U+DD73>", "<U+DD9A>" >>,
    << "<U+D801>", "<U+DD74>", "<U+DD9B>" >>, << "<U+D801>", "<U+DD75>", "<U+DD9C>" >>,
    << "<U+D801>", "<U+DD76>", "<U+DD9D>" >>, << "<U+D801>", "<U+DD77>", "<U+DD9E>" >>,
    << "<U+D801>", "<U+DD78>", "<U+DD9F>" >>, << "<U+D801>", "<U+DD79>", "<U+DDA0>" >>,
    << "<U+D801>", "<U+DD7A>", "<U+DDA1>" >>, << "<U+D801>", "<U+DD7C>", "<U+DDA3>" >>,
    << "<U+D801>", "<U+DD7D>", "<U+DDA4>" >>, << "<U+D801>", "<U+DD7E>", "<U+DDA5>" >>,
    << "<U+D801>", "<U+DD7F>", "<U+DDA6>" >>, << "<U+D801>", "<U+DD80>", "<U+DDA7>" >>,
    << "<U+D801>", "<U+DD81>", "<U+DDA8>" >>, << "<U+D801>", "<U+DD82>", "<U+DDA9>" >>,
    << "<U+D801>", "<U+DD83>", "<U+DDAA>" >>, << "<U+D801>", "<U+DD84>", "<U+DDAB>" >>,
    << "<U+D801>", "<U+DD85>", "<U+DDAC>" >>, << "<U+D801>", "<U+DD86>", "<U+DDAD>" >>,
    << "<U+D801>", "<U+DD87>", "<U+DDAE>" >>, << "<U+D801>", "<U+DD88>", "<U+DDAF>" >>,
    << "<U+D801>", "<U+DD89>", "<U+DDB0>" >>, << "<U+D801>", "<U+DD8A>", "<U+DDB1>" >>,
    << "<U+D801>", "<U+DD8C>", "<U+DDB3>" >>, << "<U+D801>", "<U+DD8D>", "<U+DDB4>" >>,
    << "<U+D801>", "<U+DD8E>", "<U+DDB5>" >>, << "<U+D801>", "<U+DD8F>", "<U+DDB6>" >>,
    << "<U+D801>", "<U+DD90>", "<U+DDB7>" >>, << "<U+D801>", "<U+DD91>", "<U+DDB8>" >>,
    << "<U+D801>", "<U+DD92>", "<U+DDB9>" >>, << "<U+D801>", "<U+DD94>", "<U+DDBB>" >>,
    << "<U+D801>", "<U+DD95>", "<U+DDBC>" >>, << "<U+D803>", "<U+DC80>", "<U+DCC0>" >>,
    << "<U+D803>", "<U+DC81>", "<U+DCC1>" >>, << "<U+D803>", "<U+DC82>", "<U+DCC2>" >>,
    << "<U+D803>", "<U+DC83>", "<U+DCC3>" >>, << "<U+D803>", "<U+DC84>", "<U+DCC4>" >>,
    << "<U+D803>", "<U+DC85>", "<U+DCC5>" >>, << "<U+D803>", "<U+DC86>", "<U+DCC6>" >>,
    << "<U+D803>", "<U+DC87>", "<U+DCC7>" >>, << "<U+D803>", "<U+DC88>", "<U+DCC8>" >>,
    << "<U+D803>", "<U+DC89>", "<U+DCC9>" >>, << "<U+D803>", "<U+DC8A>", "<U+DCCA>" >>,
    << "<U+D803>", "<U+DC8B>", "<U+DCCB>" >>, << "<U+D803>", "<U+DC8C>", "<U+DCCC>" >>,
    << "<U+D803>", "<U+DC8D>", "<U+DCCD>" >>, << "<U+D803>", "<U+DC8E>", "<U+DCCE>" >>,
    << "<U+D803>", "<U+DC8F>", "<U+DCCF>" >>, << "<U+D803>", "<U+DC90>", "<U+DCD0>" >>,
    << "<U+D803>", "<U+DC91>", "<U+DCD1>" >>, << "<U+D803>", "<U+DC92>", "<U+DCD2>" >>,
    << "<U+D803>", "<U+DC93>", "<U+DCD3>" >>, << "<U+D803>", "<U+DC94>", "<U+DCD4>" >>,
    << "<U+D803>", "<U+DC95>", "<U+DCD5>" >>, << "<U+D803>", "<U+DC96>", "<U+DCD6>" >>,
    << "<U+D803>", "<U+DC97>", "<U+DCD7>" >>, << "<U+D803>", "<U+DC98>", "<U+DCD8>" >>,
    << "<U+D803>", "<U+DC99>", "<U+DCD9>" >>, << "<U+D803>", "<U+DC9A>", "<U+DCDA>" >>,
    << "<U+D803>", "<U+DC9B>", "<U+DCDB>" >>, << "<U+D803>", "<U+DC9C>", "<U+DCDC>" >>,
    << "<U+D803>", "<U+DC9D>", "<U+DCDD>" >>, << "<U+D803>", "<U+DC9E>", "<U+DCDE>" >>,
    << "<U+D803>", "<U+DC9F>", "<U+DCDF>" >>, << "<U+D803>", "<U+DCA0>", "<U+DCE0>" >>,
    << "<U+D803>", "<U+DCA1>", "<U+DCE1>" >>, << "<U+D803>", "<U+DCA2>", "<U+DCE2>" >>,
    << "<U+D803>", "<U+DCA3>", "<U+DCE3>" >>, << "<U+D803>", "<U+DCA4>", "<U+DCE4>" >>,
    << "<U+D803>", "<U+DCA5>", "<U+DCE5>" >>, << "<U+D803>", "<U+DCA6>", "<U+DCE6>" >>,
    << "<U+D803>", "<U+DCA7>", "<U+DCE7>" >>, << "<U+D803>", "<U+DCA8>", "<U+DCE8>" >>,
    << "<U+D803>", "<U+DCA9>", "<U+DCE9>" >>, << "<U+D803>", "<U+DCAA>", "<U+DCEA>" >>,
    << "<U+D803>", "<U+DCAB>", "<U+DCEB>" >>, << "<U+D803>", "<U+DCAC>", "<U+DCEC>" >>,
    << "<U+D803>", "<U+DCAD>", "<U+DCED>" >>, << "<U+D803>", "<U+DCAE>", "<U+DCEE>" >>,
    << "<U+D803>", "<U+DCAF>", "<U+DCEF>" >>, << "<U+D803>", "<U+DCB0>", "<U+DCF0>" >>,
    << "<U+D803>", "<U+DCB1>", "<U+DCF1>" >>, << "<U+D803>", "<U+DCB2>", "<U+DCF2>" >>,
    << "<U+D803>", "<U+DD50>", "<U+DD70>" >>, << "<U+D803>", "<U+DD51>", "<U+DD71>" >>,
    << "<U+D803>", "<U+DD52>", "<U+DD72>" >>, << "<U+D803>", "<U+DD53>", "<U+DD73>" >>,
    << "<U+D803>", "<U+DD54>", "<U+DD74>" >>, << "<U+D803>", "<U+DD55>", "<U+DD75>" >>,
    << "<U+D803>", "<U+DD56>", "<U+DD76>" >>, << "<U+D803>", "<U+DD57>", "<U+DD77>" >>,
    << "<U+D803>", "<U+DD58>", "<U+DD78>" >>, << "<U+D803>", "<U+DD59>", "<U+DD79>" >>,
    << "<U+D803>", "<U+DD5A>", "<U+DD7A>" >>, << "<U+D803>", "<U+DD5B>", "<U+DD7B>" >>,
    << "<U+D803>", "<U+DD5C>", "<U+DD7C>" >>, << "<U+D803>", "<U+DD5D>", "<U+DD7D>" >>,
    << "<U+D803>", "<U+DD5E>", "<U+DD7E>" >>, << "<U+D803>", "<U+DD5F>", "<U+DD7F>" >>,
    << "<U+D803>", "<U+DD60>", "<U+DD80>" >>, << "<U+D803>", "<U+DD61>", "<U+DD81>" >>,
    << "<U+D803>", "<U+DD62>", "<U+DD82>" >>, << "<U+D803>", "<U+DD63>", "<U+DD83>" >>,
    << "<U+D803>", "<U+DD64>", "<U+DD84>" >>, << "<U+D803>", "<U+DD65>", "<U+DD85>" >>,
    << "<U+D806>", "<U+DCA0>", "<U+DCC0>" >>, << "<U+D806>", "<U+DCA1>", "<U+DCC1>" >>,
    << "<U+D806>", "<U+DCA2>", "<U+DCC2>" >>, << "<U+D806>", "<U+DCA3>", "<U+DCC3>" >>,
    << "<U+D806>", "<U+DCA4>", "<U+DCC4>" >>, << "<U+D806>", "<U+DCA5>", "<U+DCC5>" >>,
    << "<U+D806>", "<U+DCA6>", "<U+DCC6>" >>, << "<U+D806>", "<U+DCA7>", "<U+DCC7>" >>,
    << "<U+D806>", "<U+DCA8>", "<U+DCC8>" >>, << "<U+D806>", "<U+DCA9>", "<U+DCC9>" >>,
    << "<U+D806>", "<U+DCAA>", "<U+DCCA>" >>, << "<U+D806>", "<U+DCAB>", "<U+DCCB>" >>,
    << "<U+D806>", "<U+DCAC>", "<U+DCCC>" >>, << "<U+D806>", "<U+DCAD>", "<U+DCCD>" >>,
    << "<U+D806>", "<U+DCAE>", "<U+DCCE>" >>, << "<U+D806>", "<U+DCAF>", "<U+DCCF>" >>,
    << "<U+D806>", "<U+DCB0>", "<U+DCD0>" >>, << "<U+D806>", "<U+DCB1>", "<U+DCD1>" >>,
    << "<U+D806>", "<U+DCB2>", "<U+DCD2>" >>, << "<U+D806>", "<U+DCB3>", "<U+DCD3>" >>,
    << "<U+D806>", "<U+DCB4>", "<U+DCD4>" >>, << "<U+D806>", "<U+DCB5>", "<U+DCD5>" >>,
    << "<U+D806>", "<U+DCB6>", "<U+DCD6>" >>, << "<U+D806>", "<U+DCB7>", "<U+DCD7>" >>,
    << "<U+D806>", "<U+DCB8>", "<U+DCD8>" >>, << "<U+D806>", "<U+DCB9>", "<U+DCD9>" >>,
    << "<U+D806>", "<U+DCBA>", "<U+DCDA>" >>, << "<U+D806>", "<U+DCBB>", "<U+DCDB>" >>,
    << "<U+D806>", "<U+DCBC>", "<U+DCDC>" >>, << "<U+D806>", "<U+DCBD>", "<U+DCDD>" >>,
    << "<U+D806>", "<U+DCBE>", "<U+DCDE>" >>, << "<U+D806>", "<U+DCBF>", "<U+DCDF>" >>,
    << "<U+D81B>", "<U+DE40>", "<U+DE60>" >>, << "<U+D81B>", "<U+DE41>", "<U+DE61>" >>,
    << "<U+D81B>", "<U+DE42>", "<U+DE62>" >>, << "<U+D81B>", "<U+DE43>", "<U+DE63>" >>,
    << "<U+D81B>", "<U+DE44>", "<U+DE64>" >>, << "<U+D81B>", "<U+DE45>", "<U+DE65>" >>,
    << "<U+D81B>", "<U+DE46>", "<U+DE66>" >>, << "<U+D81B>", "<U+DE47>", "<U+DE67>" >>,
    << "<U+D81B>", "<U+DE48>", "<U+DE68>" >>, << "<U+D81B>", "<U+DE49>", "<U+DE69>" >>,
    << "<U+D81B>", "<U+DE4A>", "<U+DE6A>" >>, << "<U+D81B>", "<U+DE4B>", "<U+DE6B>" >>,
    << "<U+D81B>", "<U+DE4C>", "<U+DE6C>" >>, << "<U+D81B>", "<U+DE4D>", "<U+DE6D>" >>,
    << "<U+D81B>", "<U+DE4E>", "<U+DE6E>" >>, << "<U+D81B>", "<U+DE4F>", "<U+DE6F>" >>,
    << "<U+D81B>", "<U+DE50>", "<U+DE70>" >>, << "<U+D81B>", "<U+DE51>", "<U+DE71>" >>,
    << "<U+D81B>", "<U+DE52>", "<U+DE72>" >>, << "<U+D81B>", "<U+DE53>", "<U+DE73>" >>,
    << "<U+D81B>", "<U+DE54>", "<U+DE74>" >>, << "<U+D81B>", "<U+DE55>", "<U+DE75>" >>,
    << "<U+D81B>", "<U+DE56>", "<U+DE76>" >>, << "<U+D81B>", "<U+DE57>", "<U+DE77>" >>,
    << "<U+D81B>", "<U+DE58>", "<U+DE78>" >>, << "<U+D81B>", "<U+DE59>", "<U+DE79>" >>,
    << "<U+D81B>", "<U+DE5A>", "<U+DE7A>" >>, << "<U+D81B>", "<U+DE5B>", "<U+DE7B>" >>,
    << "<U+D81B>", "<U+DE5C>", "<U+DE7C>" >>, << "<U+D81B>", "<U+DE5D>", "<U+DE7D>" >>,
    << "<U+D81B>", "<U+DE5E>", "<U+DE7E>" >>, << "<U+D81B>", "<U+DE5F>", "<U+DE7F>" >>,
    << "<U+D81B>", "<U+DEA0>", "<U+DEBB>" >>, << "<U+D81B>", "<U+DEA1>", "<U+DEBC>" >>,
    << "<U+D81B>", "<U+DEA2>", "<U+DEBD>" >>, << "<U+D81B>", "<U+DEA3>", "<U+DEBE>" >>,
    << "<U+D81B>", "<U+DEA4>", "<U+DEBF>" >>, << "<U+D81B>", "<U+DEA5>", "<U+DEC0>" >>,
    << "<U+D81B>", "<U+DEA6>", "<U+DEC1>" >>, << "<U+D81B>", "<U+DEA7>", "<U+DEC2>" >>,
    << "<U+D81B>", "<U+DEA8>", "<U+DEC3>" >>, << "<U+D81B>", "<U+DEA9>", "<U+DEC4>" >>,
    << "<U+D81B>", "<U+DEAA>", "<U+DEC5>" >>, << "<U+D81B>", "<U+DEAB>", "<U+DEC6>" >>,
    << "<U+D81B>", "<U+DEAC>", "<U+DEC7>" >>, << "<U+D81B>", "<U+DEAD>", "<U+DEC8>" >>,
    << "<U+D81B>", "<U+DEAE>", "<U+DEC9>" >>, << "<U+D81B>", "<U+DEAF>", "<U+DECA>" >>,
    << "<U+D81B>", "<U+DEB0>", "<U+DECB>" >>, << "<U+D81B>", "<U+DEB1>", "<U+DECC>" >>,
    << "<U+D81B>", "<U+DEB2>", "<U+DECD>" >>, << "<U+D81B>", "<U+DEB3>", "<U+DECE>" >>,
    << "<U+D81B>", "<U+DEB4>", "<U+DECF>" >>, << "<U+D81B>", "<U+DEB5>", "<U+DED0>" >>,
    << "<U+D81B>", "<U+DEB6>", "<U+DED1>" >>, << "<U+D81B>", "<U+DEB7>", "<U+DED2>" >>,
    << "<U+D81B>", "<U+DEB8>", "<U+DED3>" >>, << "<U+D83A>", "<U+DD00>", "<U+DD22>" >>,
    << "<U+D83A>", "<U+DD01>", "<U+DD23>" >>, << "<U+D83A>", "<U+DD02>", "<U+DD24>" >>,
    << "<U+D83A>", "<U+DD03>", "<U+DD25>" >>, << "<U+D83A>", "<U+DD04>", "<U+DD26>" >>,
    << "<U+D83A>", "<U+DD05>", "<U+DD27>" >>, << "<U+D83A>", "<U+DD06>", "<U+DD28>" >>,
    << "<U+D83A>", "<U+DD07>", "<U+DD29>" >>, << "<U+D83A>", "<U+DD08>", "<U+DD2A>" >>,
    << "<U+D83A>", "<U+DD09>", "<U+DD2B>" >>, << "<U+D83A>", "<U+DD0A>", "<U+DD2C>" >>,
    << "<U+D83A>", "<U+DD0B>", "<U+DD2D>" >>, << "<U+D83A>", "<U+DD0C>", "<U+DD2E>" >>,
    << "<U+D83A>", "<U+DD0D>", "<U+DD2F>" >>, << "<U+D83A>", "<U+DD0E>", "<U+DD30>" >>,
    << "<U+D83A>", "<U+DD0F>", "<U+DD31>" >>, << "<U+D83A>", "<U+DD10>", "<U+DD32>" >>,
    << "<U+D83A>", "<U+DD11>", "<U+DD33>" >>, << "<U+D83A>", "<U+DD12>", "<U+DD34>" >>,
    << "<U+D83A>", "<U+DD13>", "<U+DD35>" >>, << "<U+D83A>", "<U+DD14>", "<U+DD36>" >>,
    << "<U+D83A>", "<U+DD15>", "<U+DD37>" >>, << "<U+D83A>", "<U+DD16>", "<U+DD38>" >>,
    << "<U+D83A>", "<U+DD17>", "<U+DD39>" >>, << "<U+D83A>", "<U+DD18>", "<U+DD3A>" >>,
    << "<U+D83A>", "<U+DD19>", "<U+DD3B>" >>, << "<U+D83A>", "<U+DD1A>", "<U+DD3C>" >>,
    << "<U+D83A>", "<U+DD1B>", "<U+DD3D>" >>, << "<U+D83A>", "<U+DD1C>", "<U+DD3E>" >>,
    << "<U+D83A>", "<U+DD1D>", "<U+DD3F>" >>, << "<U+D83A>", "<U+DD1E>", "<U+DD40>" >>,
    << "<U+D83A>", "<U+DD1F>", "<U+DD41>" >>, << "<U+D83A>", "<U+DD20>", "<U+DD42>" >>,
    << "<U+D83A>", "<U+DD21>", "<U+DD43>" >>
  }

\* the case-ignorable characters of Unicode in the Basic Multilingual Plane
CaseIgnorable ==
  {
    "'", ".", ":", "^", "<U+0060>", "<U+00A8>",
    "<U+00AD>", "<U+00AF>", "<U+00B4>", "<U+00B7>", "<U+00B8>", "<U+02B0>",
    "<U+02B1>", "<U+02B2>", "<U+02B3>", "<U+02B4>", "<U+02B5>", "<U+02B6>",
    "<U+02B7>", "<U+02B8>", "<U+02B9>", "<U+02BA>", "<U+02BB>", "<U+02BC>",
    "<U+02BD>", "<U+02BE>", "<U+02BF>", "<U+02C0>", "<U+02C1>", "<U+02C2>",
    "<U+02C3>", "<U+02C4>", "<U+02C5>", "<U+02C6>", "<U+02C7>", "<U+02C8>",
    "<U+02C9>", "<U+02CA>", "<U+02CB>", "<U+02CC>", "<U+02CD>", "<U+02CE>",
    "<U+02CF>", "<U+02D0>", "<U+02D1>", "<U+02D2>", "<U+02D3>", "<U+02D4>",
    "<U+02D5>", "<U+02D6>", "<U+02D7>", "<U+02D8>", "<U+02D9>", "<U+02DA>",
    "<U+02DB>", "<U+02DC>", "<U+02DD>", "<U+02DE>", "<U+02DF>", "<U+02E0>",
    "<U+02E1>", "<U+02E2>", "<U+02E3>", "<U+02E4>", "<U+02E5>", "<U+02E6>",
    "<U+02E7>", "<U+02E8>", "<U+02E9>", "<U+02EA>", "<U+02EB>", "<U+02EC>",
    "<U+02ED>", "<U+02EE>", "<U+02EF>", "<U+02F0>", "<U+02F1>", "<U+02F2>",
    "<U+02F3>", "<U+02F4>", "<U+02F5>", "<U+02F6>", "<U+02F7>", "<U+02F8>",
    "<U+02F9>", "<U+02FA>", "<U+02FB>", "<U+02FC>", "<U+02FD>", "<U+02FE>",
    "<U+02FF>", "<U+0300>", "<U+0301>", "<U+0302>", "<U+0303>", "<U+0304>",
    "<U+0305>", "<U+0306>", "<U+0307>", "<U+0308>", "<U+0309>", "<U+030A>",
    "<U+030B>", "<U+030C>", "<U+030D>", "<U+030E>", "<U+030F>", "<U+0310>",
    "<U+0311>", "<U+0312>", "<U+0313>", "<U+0314>", "<U+0315>", "<U+0316>",
    "<U+0317>", "<U+0318>", "<U+0319>", "<U+031A>", "<U+031B>", "<U+031C>",
    "<U+031D>", "<U+031E>", "<U+031F>", "<U+0320>", "<U+0321>", "<U+0322>",
    "<U+0323>", "<U+0324>", "<U+0325>", "<U+0326>", "<U+0327>", "<U+0328>",
    "<U+0329>", "<U+032A>", "<U+032B>", "<U+032C>", "<U+032D>", "<U+032E>",
    "<U+032F>", "<U+0330>", "<U+0331>", "<U+0332>", "<U+0333>", "<U+0334>",
    "<U+0335>", "<U+0336>", "<U+0337>", "<U+0338>", "<U+0339>", "<U+033A>",
    "<U+033B>", "<U+033C>", "<U+033D>", "<U+033E>", "<U+033F>", "<U+0340>",
    "<U+0341>", "<U+0342>", "<U+0343>", "<U+0344>", "<U+0345>", "<U+0346>",
    "<U+0347>", "<U+0348>", "<U+0349>", "<U+034A>", "<U+034B>", "<U+034C>",
    "<U+034D>", "<U+034E>", "<U+034F>", "<U+0350>", "<U+0351>", "<U+0352>",
    "<U+0353>", "<U+0354>", "<U+0355>", "<U+0356>", "<U+0357>", "<U+0358>",
    "<U+0359>", "<U+035A>", "<U+035B>", "<U+035C>", "<U+035D>", "<U+035E>",
    "<U+035F>", "<U+0360>", "<U+0361>", "<U+0362>", "<U+0363>", "<U+0364>",
    "<U+0365>", "<U+0366>", "<U+0367>", "<U+0368>", "<U+0369>", "<U+036A>",
    "<U+036B>", "<U+036C>", "<U+036D>", "<U+036E>", "<U+036F>", "<U+0374>",
    "<U+0375>", "<U+037A>", "<U+0384>", "<U+0385>", "<U+0387>", "<U+0483>",
    "<U+0484>", "<U+0485>", "<U+0486>", "<U+0487>", "<U+0488>", "<U+0489>",
    "<U+0559>", "<U+055F>", "<U+0591>", "<U+0592>", "<U+0593>", "<U+0594>",
    "<U+0595>", "<U+0596>", "<U+0597>", "<U+0598>", "<U+0599>", "<U+059A>",
    "<U+059B>", "<U+059C>", "<U+059D>", "<U+059E>", "<U+059F>", "<U+05A0>",
    "<U+05A1>", "<U+05A2>", "<U+05A3>", "<U+05A4>", "<U+05A5>", "<U+05A6>",
    "<U+05A7>", "<U+05A8>", "<U+05A9>", "<U+05AA>", "<U+05AB>", "<U+05AC>",
    "<U+05AD>", "<U+05AE>", "<U+05AF>", "<U+05B0>", "<U+05B1>", "<U+05B2>",
    "<U+05B3>", "<U+05B4>", "<U+05B5>", "<U+05B6>", "<U+05B7>", "<U+05B8>",
    "<U+05B9>", "<U+05BA>", "<U+05BB>", "<U+05BC>", "<U+05BD>", "<U+05BF>",
    "<U+05C1>", "<U+05C2>", "<U+05C4>", "<U+05C5>", "<U+05C7>", "<U+05F4>",
    "<U+0600>", "<U+0601>", "<U+0602>", "<U+0603>", "<U+0604>", "<U+0605>",
    "<U+0610>", "<U+0611>", "<U+0612>", "<U+0613>", "<U+0614>", "<U+0615>",
    "<U+0616>", "<U+0617>", "<U+0618>", "<U+0619>", "<U+061A>", "<U+061C>",
    "<U+0640>", "<U+064B>", "<U+064C>", "<U+064D>", "<U+064E>", "<U+064F>",
    "<U+0650>", "<U+0651>", "<U+0652>", "<U+0653>", "<U+0654>", "<U+0655>",
    "<U+0656>", "<U+0657>", "<U+0658>", "<U+0659>", "<U+065A>", "<U+065B>",
    "<U+065C>", "<U+065D>", "<U+065E>", "<U+065F>", "<U+0670>", "<U+06D6>",
    "<U+06D7>", "<U+06D8>", "<U+06D9>", "<U+06DA>", "<U+06DB>", "<U+06DC>",
    "<U+06DD>", "<U+06DF>", "<U+06E0>", "<U+06E1>", "<U+06E2>", "<U+06E3>",
    "<U+06E4>", "<U+06E5>", "<U+06E6>", "<U+06E7>", "<U+06E8>", "<U+06EA>",
    "<U+06EB>", "<U+06EC>", "<U+06ED>", "<U+070F>", "<U+0711>", "<U+0730>",
    "<U+0731>", "<U+0732>", "<U+0733>", "<U+0734>", "<U+0735>", "<U+0736>",
    "<U+0737>", "<U+0738>", "<U+0739>", "<U+073A>", "<U+073B>", "<U+073C>",
    "<U+073D>", "<U+073E>", "<U+073F>", "<U+0740>", "<U+0741>", "<U+0742>",
    "<U+0743>", "<U+0744>", "<U+0745>", "<U+0746>", "<U+0747>", "<U+0748>",
    "<U+0749>", "<U+074A>", "<U+07A6>", "<U+07A7>", "<U+07A8>", "<U+07A9>",
    "<U+07AA>", "<U+07AB>", "<U+07AC>", "<U+07AD>", "<U+07AE>", "<U+07AF>",
    "<U+07B0>", "<U+07EB>", "<U+07EC>", "<U+07ED>", "<U+07EE>", "<U+07EF>",
    "<U+07F0>", "<U+07F1>", "<U+07F2>", "<U+07F3>", "<U+07F4>", "<U+07F5>",
    "<U+07FA>", "<U+07FD>", "<U+0816>", "<U+0817>", "<U+0818>", "<U+0819>",
    "<U+081A>", "<U+081B>", "<U+081C>", "<U+081D>", "<U+081E>", "<U+081F>",
    "<U+0820>", "<U+0821>", "<U+0822>", "<U+0823>", "<U+0824>", "<U+0825>",
    "<U+0826>", "<U+0827>", "<U+0828>", "<U+0829>", "<U+082A>", "<U+082B>",
    "<U+082C>", "<U+082D>", "<U+0859>", "<U+085A>", "<U+085B>", "<U+0888>",
    "<U+0890>", "<U+0891>", "<U+0897>", "<U+0898>", "<U+0899>", "<U+089A>",
    "<U+089B>", "<U+089C>", "<U+089D>", "<U+089E>", "<U+089F>", "<U+08C9>",
    "<U+08CA>", "<U+08CB>", "<U+08CC>", "<U+08CD>", "<U+08CE>", "<U+08CF>",
    "<U+08D0>", "<U+08D1>", "<U+08D2>", "<U+08D3>", "<U+08D4>", "<U+08D5>",
    "<U+08D6>", "<U+08D7>", "<U+08D8>", "<U+08D9>", "<U+08DA>", "<U+08DB>",
    "<U+08DC>", "<U+08DD>", "<U+08DE>", "<U+08DF>", "<U+08E0>", "<U+08E1>",
    "<U+08E2>", "<U+08E3>", "<U+08E4>", "<U+08E5>", "<U+08E6>", "<U+08E7>",
    "<U+08E8>", "<U+08E9>", "<U+08EA>", "<U+08EB>", "<U+08EC>", "<U+08ED>",
    "<U+08EE>", "<U+08EF>", "<U+08F0>", "<U+08F1>", "<U+08F2>", "<U+08F3>",
    "<U+08F4>", "<U+08F5>", "<U+08F6>", "<U+08F7>", "<U+08F8>", "<U+08F9>",
    "<U+08FA>", "<U+08FB>", "<U+08FC>", "<U+08FD>", "<U+08FE>", "<U+08FF>",
    "<U+0900>", "<U+0901>", "<U+0902>", "<U+093A>", "<U+093C>", "<U+0941>",
    "<U+0942>", "<U+0943>", "<U+0944>", "<U+0945>", "<U+0946>", "<U+0947>",
    "<U+0948>", "<U+094D>", "<U+0951>", "<U+0952>", "<U+0953>", "<U+0954>",
    "<U+0955>", "<U+0956>", "<U+0957>", "<U+0962>", "<U+0963>", "<U+0971>",
    "<U+0981>", "<U+09BC>", "<U+09C1>", "<U+09C2>", "<U+09C3>", "<U+09C4>",
    "<U+09CD>", "<U+09E2>", "<U+09E3>", "<U+09FE>", "<U+0A01>", "<U+0A02>",
    "<U+0A3C>", "<U+0A41>", "<U+0A42>", "<U+0A47>", "<U+0A48>", "<U+0A4B>",
    "<U+0A4C>", "<U+0A4D>", "<U+0A51>", "<U+0A70>", "<U+0A71>", "<U+0A75>",
    "<U+0A81>", "<U+0A82>", "<U+0ABC>", "<U+0AC1>", "<U+0AC2>", "<U+0AC3>",
    "<U+0AC4>", "<U+0AC5>", "<U+0AC7>", "<U+0AC8>", "<U+0ACD>", "<U+0AE2>",
    "<U+0AE3>", "<U+0AFA>", "<U+0AFB>", "<U+0AFC>", "<U+0AFD>", "<U+0AFE>",
    "<U+0AFF>", "<U+0B01>", "<U+0B3C>", "<U+0B3F>", "<U+0B41>", "<U+0B42>",
    "<U+0B43>", "<U+0B44>", "<U+0B4D>", "<U+0B55>", "<U+0B56>", "<U+0B62>",
    "<U+0B63>", "<U+0B82>", "<U+0BC0>", "<U+0BCD>", "<U+0C00>", "<U+0C04>",
    "<U+0C3C>", "<U+0C3E>", "<U+0C3F>", "<U+0C40>", "<U+0C46>", "<U+0C47>",
    "<U+0C48>", "<U+0C4A>", "<U+0C4B>", "<U+0C4C>", "<U+0C4D>", "<U+0C55>",
    "<U+0C56>", "<U+0C62>", "<U+0C63>", "<U+0C81>", "<U+0CBC>", "<U+0CBF>",
    "<U+0CC6>", "<U+0CCC>", "<U+0CCD>", "<U+0CE2>", "<U+0CE3>", "<U+0D00>",
    "<U+0D01>", "<U+0D3B>", "<U+0D3C>", "<U+0D41>", "<U+0D42>", "<U+0D43>",
    "<U+0D44>", "<U+0D4D>", "<U+0D62>", "<U+0D63>", "<U+0D81>", "<U+0DCA>",
    "<U+0DD2>", "<U+0DD3>", "<U+0DD4>", "<U+0DD6>", "<U+0E31>", "<U+0E34>",
    "<U+0E35>", "<U+0E36>", "<U+0E37>", "<U+0E38>", "<U+0E39>", "<U+0E3A>",
    "<U+0E46>", "<U+0E47>", "<U+0E48>", "<U+0E49>", "<U+0E4A>", "<U+0E4B>",
    "<U+0E4C>", "<U+0E4D>", "<U+0E4E>", "<U+0EB1>", "<U+0EB4>", "<U+0EB5>",
    "<U+0EB6>", "<U+0EB7>", "<U+0EB8>", "<U+0EB9>", "<U+0EBA>", "<U+0EBB>",
    "<U+0EBC>", "<U+0EC6>", "<U+0EC8>", "<U+0EC9>", "<U+0ECA>", "<U+0ECB>",
    "<U+0ECC>", "<U+0ECD>", "<U+0ECE>", "<U+0F18>", "<U+0F19>", "<U+0F35>",
    "<U+0F37>", "<U+0F39>", "<U+0F71>", "<U+0F72>", "<U+0F73>", "<U+0F74>",
    "<U+0F75>", "<U+0F76>", "<U+0F77>", "<U+0F78>", "<U+0F79>", "<U+0F7A>",
    "<U+0F7B>", "<U+0F7C>", "<U+0F7D>", "<U+0F7E>", "<U+0F80>", "<U+0F81>",
    "<U+0F82>", "<U+0F83>", "<U+0F84>", "<U+0F86>", "<U+0F87>", "<U+0F8D>",
    "<U+0F8E>", "<U+0F8F>", "<U+0F90>", "<U+0F91>", "<U+0F92>", "<U+0F93>",
    "<U+0F94>", "<U+0F95>", "<U+0F96>", "<U+0F97>", "<U+0F99>", "<U+0F9A>",
    "<U+0F9B>", "<U+0F9C>", "<U+0F9D>", "<U+0F9E>", "<U+0F9F>", "<U+0FA0>",
    "<U+0FA1>", "<U+0FA2>", "<U+0FA3>", "<U+0FA4>", "<U+0FA5>", "<U+0FA6>",
    "<U+0FA7>", "<U+0FA8>", "<U+0FA9>", "<U+0FAA>", "<U+0FAB>", "<U+0FAC>",
    "<U+0FAD>", "<U+0FAE>", "<U+0FAF>", "<U+0FB0>", "<U+0FB1>", "<U+0FB2>",
    "<U+0FB3>", "<U+0FB4>", "<U+0FB5>", "<U+0FB6>", "<U+0FB7>", "<U+0FB8>",
    "<U+0FB9>", "<U+0FBA>", "<U+0FBB>", "<U+0FBC>", "<U+0FC6>", "<U+102D>",
    "<U+102E>", "<U+102F>", "<U+1030>", "<U+1032>", "<U+1033>", "<U+1034>",
    "<U+1035>", "<U+1036>", "<U+1037>", "<U+1039>", "<U+103A>", "<U+103D>",
    "<U+103E>", "<U+1058>", "<U+1059>", "<U+105E>", "<U+105F>", "<U+1060>",
    "<U+1071>", "<U+1072>", "<U+1073>", "<U+1074>", "<U+1082>", "<U+1085>",
    "<U+1086>", "<U+108D>", "<U+109D>", "<U+10FC>", "<U+135D>", "<U+135E>",
    "<U+135F>", "<U+1712>", "<U+1713>", "<U+1714>", "<U+1732>", "<U+1733>",
    "<U+1752>", "<U+1753>", "<U+1772>", "<U+1773>", "<U+17B4>", "<U+17B5>",
    "<U+17B7>", "<U+17B8>", "<U+17B9>", "<U+17BA>", "<U+17BB>", "<U+17BC>",
    "<U+17BD>", "<U+17C6>", "<U+17C9>", "<U+17CA>", "<U+17CB>", "<U+17CC>",
    "<U+17CD>", "<U+17CE>", "<U+17CF>", "<U+17D0>", "<U+17D1>", "<U+17D2>",
    "<U+17D3>", "<U+17D7>", "<U+17DD>", "<U+180B>", "<U+180C>", "<U+180D>",
    "<U+180E>", "<U+180F>", "<U+1843>", "<U+1885>", "<U+1886>", "<U+18A9>",
    "<U+1920>", "<U+1921>", "<U+1922>", "<U+1927>", "<U+1928>", "<U+1932>",
    "<U+1939>", "<U+193A>", "<U+193B>", "<U+1A17>", "<U+1A18>", "<U+1A1B>",
    "<U+1A56>", "<U+1A58>", "<U+1A59>", "<U+1A5A>", "<U+1A5B>", "<U+1A5C>",
    "<U+1A5D>", "<U+1A5E>", "<U+1A60>", "<U+1A62>", "<U+1A65>", "<U+1A66>",
    "<U+1A67>", "<U+1A68>", "<U+1A69>", "<U+1A6A>", "<U+1A6B>", "<U+1A6C>",
    "<U+1A73>", "<U+1A74>", "<U+1A75>", "<U+1A76>", "<U+1A77>", "<U+1A78>",
    "<U+1A79>", "<U+1A7A>", "<U+1A7B>", "<U+1A7C>", "<U+1A7F>", "<U+1AA7>",
    "<U+1AB0>", "<U+1AB1>", "<U+1AB2>", "<U+1AB3>", "<U+1AB4>", "<U+1AB5>",
    "<U+1AB6>", "<U+1AB7>", "<U+1AB8>", "<U+1AB9>", "<U+1ABA>", "<U+1ABB>",
    "<U+1ABC>", "<U+1ABD>", "<U+1ABE>", "<U+1ABF>", "<U+1AC0>", "<U+1AC1>",
    "<U+1AC2>", "<U+1AC3>", "<U+1AC4>", "<U+1AC5>", "<U+1AC6>", "<U+1AC7>",
    "<U+1AC8>", "<U+1AC9>", "<U+1ACA>", "<U+1ACB>", "<U+1ACC>", "<U+1ACD>",
    "<U+1ACE>", "<U+1ACF>", "<U+1AD0>", "<U+1AD1>", "<U+1AD2>", "<U+1AD3>",
    "<U+1AD4>", "<U+1AD5>", "<U+1AD6>", "<U+1AD7>", "<U+1AD8>", "<U+1AD9>",
    "<U+1ADA>", "<U+1ADB>", "<U+1ADC>", "<U+1ADD>", "<U+1AE0>", "<U+1AE1>",
    "<U+1AE2>", "<U+1AE3>", "<U+1AE4>", "<U+1AE5>", "<U+1AE6>", "<U+1AE7>",
    "<U+1AE8>", "<U+1AE9>", "<U+1AEA>", "<U+1AEB>", "<U+1B00>", "<U+1B01>",
    "<U+1B02>", "<U+1B03>", "<U+1B34>", "<U+1B36>", "<U+1B37>", "<U+1B38>",
    "<U+1B39>", "<U+1B3A>", "<U+1B3C>", "<U+1B42>", "<U+1B6B>", "<U+1B6C>",
    "<U+1B6D>", "<U+1B6E>", "<U+1B6F>", "<U+1B70>", "<U+1B71>", "<U+1B72>",
    "<U+1B73>", "<U+1B80>", "<U+1B81>", "<U+1BA2>", "<U+1BA3>", "<U+1BA4>",
    "<U+1BA5>", "<U+1BA8>", "<U+1BA9>", "<U+1BAB>", "<U+1BAC>", "<U+1BAD>",
    "<U+1BE6>", "<U+1BE8>", "<U+1BE9>", "<U+1BED>", "<U+1BEF>", "<U+1BF0>",
    "<U+1BF1>", "<U+1C2C>", "<U+1C2D>", "<U+1C2E>", "<U+1C2F>", "<U+1C30>",
    "<U+1C31>", "<U+1C32>", "<U+1C33>", "<U+1C36>", "<U+1C37>", "<U+1C78>",
    "<U+1C79>", "<U+1C7A>", "<U+1C7B>", "<U+1C7C>", "<U+1C7D>", "<U+1CD0>",
    "<U+1CD1>", "<U+1CD2>", "<U+1CD4>", "<U+1CD5>", "<U+1CD6>", "<U+1CD7>",
    "<U+1CD8>", "<U+1CD9>", "<U+1CDA>", "<U+1CDB>", "<U+1CDC>", "<U+1CDD>",
    "<U+1CDE>", "<U+1CDF>", "<U+1CE0>", "<U+1CE2>", "<U+1CE3>", "<U+1CE4>",
    "<U+1CE5>", "<U+1CE6>", "<U+1CE7>", "<U+1CE8>", "<U+1CED>", "<U+1CF4>",
    "<U+1CF8>", "<U+1CF9>", "<U+1D2C>", "<U+1D2D>", "<U+1D2E>", "<U+1D2F>",
    "<U+1D30>", "<U+1D31>", "<U+1D32>", "<U+1D33>", "<U+1D34>", "<U+1D35>",
    "<U+1D36>", "<U+1D37>", "<U+1D38>", "<U+1D39>", "<U+1D3A>", "<U+1D3B>",
    "<U+1D3C>", "<U+1D3D>", "<U+1D3E>", "<U+1D3F>", "<U+1D40>", "<U+1D41>",
    "<U+1D42>", "<U+1D43>", "<U+1D44>", "<U+1D45>", "<U+1D46>", "<U+1D47>",
    "<U+1D48>", "<U+1D49>", "<U+1D4A>", "<U+1D4B>", "<U+1D4C>", "<U+1D4D>",
    "<U+1D4E>", "<U+1D4F>", "<U+1D50>", "<U+1D51>", "<U+1D52>", "<U+1D53>",
    "<U+1D54>", "<U+1D55>", "<U+1D56>", "<U+1D57>", "<U+1D58>", "<U+1D59>",
    "<U+1D5A>", "<U+1D5B>", "<U+1D5C>", "<U+1D5D>", "<U+1D5E>", "<U+1D5F>",
    "<U+1D60>", "<U+1D61>", "<U+1D62>", "<U+1D63>", "<U+1D64>", "<U+1D65>",
    "<U+1D66>", "<U+1D67>", "<U+1D68>", "<U+1D69>", "<U+1D6A>", "<U+1D78>",
    "<U+1D9B>", "<U+1D9C>", "<U+1D9D>", "<U+1D9E>", "<U+1D9F>", "<U+1DA0>",
    "<U+1DA1>", "<U+1DA2>", "<U+1DA3>", "<U+1DA4>", "<U+1DA5>", "<U+1DA6>",
    "<U+1DA7>", "<U+1DA8>", "<U+1DA9>", "<U+1DAA>", "<U+1DAB>", "<U+1DAC>",
    "<U+1DAD>", "<U+1DAE>", "<U+1DAF>", "<U+1DB0>", "<U+1DB1>", "<U+1DB2>",
    "<U+1DB3>", "<U+1DB4>", "<U+1DB5>", "<U+1DB6>", "<U+1DB7>", "<U+1DB8>",
    "<U+1DB9>", "<U+1DBA>", "<U+1DBB>", "<U+1DBC>", "<U+1DBD>", "<U+1DBE>",
    "<U+1DBF>", "<U+1DC0>", "<U+1DC1>", "<U+1DC2>", "<U+1DC3>", "<U+1DC4>",
    "<U+1DC5>", "<U+1DC6>", "<U+1DC7>", "<U+1DC8>", "<U+1DC9>", "<U+1DCA>",
    "<U+1DCB>", "<U+1DCC>", "<U+1DCD>", "<U+1DCE>", "<U+1DCF>", "<U+1DD0>",
    "<U+1DD1>", "<U+1DD2>", "<U+1DD3>", "<U+1DD4>", "<U+1DD5>", "<U+1DD6>",
    "<U+1DD7>", "<U+1DD8>", "<U+1DD9>", "<U+1DDA>", "<U+1DDB>", "<U+1DDC>",
    "<U+1DDD>", "<U+1DDE>", "<U+1DDF>", "<U+1DE0>", "<U+1DE1>", "<U+1DE2>",
    "<U+1DE3>", "<U+1DE4>", "<U+1DE5>", "<U+1DE6>", "<U+1DE7>", "<U+1DE8>",
    "<U+1DE9>", "<U+1DEA>", "<U+1DEB>", "<U+1DEC>", "<U+1DED>", "<U+1DEE>",
    "<U+1DEF>", "<U+1DF0>", "<U+1DF1>", "<U+1DF2>", "<U+1DF3>", "<U+1DF4>",
    "<U+1DF5>", "<U+1DF6>", "<U+1DF7>", "<U+1DF8>", "<U+1DF9>", "<U+1DFA>",
    "<U+1DFB>", "<U+1DFC>", "<U+1DFD>", "<U+1DFE>", "<U+1DFF>", "<U+1FBD>",
    "<U+1FBF>", "<U+1FC0>", "<U+1FC1>", "<U+1FCD>", "<U+1FCE>", "<U+1FCF>",
    "<U+1FDD>", "<U+1FDE>", "<U+1FDF>", "<U+1FED>", "<U+1FEE>", "<U+1FEF>",
    "<U+1FFD>", "<U+1FFE>", "<U+200B>", "<U+200C>", "<U+200D>", "<U+200E>",
    "<U+200F>", "<U+2018>", "<U+2019>", "<U+2024>", "<U+2027>", "<U+202A>",
    "<U+202B>", "<U+202C>", "<U+202D>", "<U+202E>", "<U+2060>", "<U+2061>",
    "<U+2062>", "<U+2063>", "<U+2064>", "<U+2066>", "<U+2067>", "<U+2068>",
    "<U+2069>", "<U+206A>", "<U+206B>", "<U+206C>", "<U+206D>", "<U+206E>",
    "<U+206F>", "<U+2071>", "<U+207F>", "<U+2090>", "<U+2091>", "<U+2092>",
    "<U+2093>", "<U+2094>", "<U+2095>", "<U+2096>", "<U+2097>", "<U+2098>",
    "<U+2099>", "<U+209A>", "<U+209B>", "<U+209C>", "<U+20D0>", "<U+20D1>",
    "<U+20D2>", "<U+20D3>", "<U+20D4>", "<U+20D5>", "<U+20D6>", "<U+20D7>",
    "<U+20D8>", "<U+20D9>", "<U+20DA>", "<U+20DB>", "<U+20DC>", "<U+20DD>",
    "<U+20DE>", "<U+20DF>", "<U+20E0>", "<U+20E1>", "<U+20E2>", "<U+20E3>",
    "<U+20E4>", "<U+20E5>", "<U+20E6>", "<U+20E7>", "<U+20E8>", "<U+20E9>",
    "<U+20EA>", "<U+20EB>", "<U+20EC>", "<U+20ED>", "<U+20EE>", "<U+20EF>",
    "<U+20F0>", "<U+2C7C>", "<U+2C7D>", "<U+2CEF>", "<U+2CF0>", "<U+2CF1>",
    "<U+2D6F>", "<U+2D7F>", "<U+2DE0>", "<U+2DE1>", "<U+2DE2>", "<U+2DE3>",
    "<U+2DE4>", "<U+2DE5>", "<U+2DE6>", "<U+2DE7>", "<U+2DE8>", "<U+2DE9>",
    "<U+2DEA>", "<U+2DEB>", "<U+2DEC>", "<U+2DED>", "<U+2DEE>", "<U+2DEF>",
    "<U+2DF0>", "<U+2DF1>", "<U+2DF2>", "<U+2DF3>", "<U+2DF4>", "<U+2DF5>",
    "<U+2DF6>", "<U+2DF7>", "<U+2DF8>", "<U+2DF9>", "<U+2DFA>", "<U+2DFB>",
    "<U+2DFC>", "<U+2DFD>", "<U+2DFE>", "<U+2DFF>", "<U+2E2F>", "<U+3005>",
    "<U+302A>", "<U+302B>", "<U+302C>", "<U+302D>", "<U+3031>", "<U+3032>",
    "<U+3033>", "<U+3034>", "<U+3035>", "<U+303B>", "<U+3099>", "<U+309A>",
    "<U+309B>", "<U+309C>", "<U+309D>", "<U+309E>", "<U+30FC>", "<U+30FD>",
    "<U+30FE>", "<U+A015>", "<U+A4F8>", "<U+A4F9>", "<U+A4FA>", "<U+A4FB>",
    "<U+A4FC>", "<U+A4FD>", "<U+A60C>", "<U+A66F>", "<U+A670>", "<U+A671>",
    "<U+A672>", "<U+A674>", "<U+A675>", "<U+A676>", "<U+A677>", "<U+A678>",
    "<U+A679>", "<U+A67A>", "<U+A67B>", "<U+A67C>", "<U+A67D>", "<U+A67F>",
    "<U+A69C>", "<U+A69D>", "<U+A69E>", "<U+A69F>", "<U+A6F0>", "<U+A6F1>",
    "<U+A700>", "<U+A701>", "<U+A702>", "<U+A703>", "<U+A704>", "<U+A705>",
    "<U+A706>", "<U+A707>", "<U+A708>", "<U+A709>", "<U+A70A>", "<U+A70B>",
    "<U+A70C>", "<U+A70D>", "<U+A70E>", "<U+A70F>", "<U+A710>", "<U+A711>",
    "<U+A712>", "<U+A713>", "<U+A714>", "<U+A715>", "<U+A716>", "<U+A717>",
    "<U+A718>", "<U+A719>", "<U+A71A>", "<U+A71B>", "<U+A71C>", "<U+A71D>",
    "<U+A71E>", "<U+A71F>", "<U+A720>", "<U+A721>", "<U+A770>", "<U+A788>",
    "<U+A789>", "<U+A78A>", "<U+A7F1>", "<U+A7F2>", "<U+A7F3>", "<U+A7F4>",
    "<U+A7F8>", "<U+A7F9>", "<U+A802>", "<U+A806>", "<U+A80B>", "<U+A825>",
    "<U+A826>", "<U+A82C>", "<U+A8C4>", "<U+A8C5>", "<U+A8E0>", "<U+A8E1>",
    "<U+A8E2>", "<U+A8E3>", "<U+A8E4>", "<U+A8E5>", "<U+A8E6>", "<U+A8E7>",
    "<U+A8E8>", "<U+A8E9>", "<U+A8EA>", "<U+A8EB>", "<U+A8EC>", "<U+A8ED>",
    "<U+A8EE>", "<U+A8EF>", "<U+A8F0>", "<U+A8F1>", "<U+A8FF>", "<U+A926>",
    "<U+A927>", "<U+A928>", "<U+A929>", "<U+A92A>", "<U+A92B>", "<U+A92C>",
    "<U+A92D>", "<U+A947>", "<U+A948>", "<U+A949>", "<U+A94A>", "<U+A94B>",
    "<U+A94C>", "<U+A94D>", "<U+A94E>", "<U+A94F>", "<U+A950>", "<U+A951>",
    "<U+A980>", "<U+A981>", "<U+A982>", "<U+A9B3>", "<U+A9B6>", "<U+A9B7>",
    "<U+A9B8>", "<U+A9B9>", "<U+A9BC>", "<U+A9BD>", "<U+A9CF>", "<U+A9E5>",
    "<U+A9E6>", "<U+AA29>", "<U+AA2A>", "<U+AA2B>", "<U+AA2C>", "<U+AA2D>",
    "<U+AA2E>", "<U+AA31>", "<U+AA32>", "<U+AA35>", "<U+AA36>", "<U+AA43>",
    "<U+AA4C>", "<U+AA70>", "<U+AA7C>", "<U+AAB0>", "<U+AAB2>", "<U+AAB3>",
    "<U+AAB4>", "<U+AAB7>", "<U+AAB8>", "<U+AABE>", "<U+AABF>", "<U+AAC1>",
    "<U+AADD>", "<U+AAEC>", "<U+AAED>", "<U+AAF3>", "<U+AAF4>", "<U+AAF6>",
    "<U+AB5B>", "<U+AB5C>", "<U+AB5D>", "<U+AB5E>", "<U+AB5F>", "<U+AB69>",
    "<U+AB6A>", "<U+AB6B>", "<U+ABE5>", "<U+ABE8>", "<U+ABED>", "<U+FB1E>",
    "<U+FBB2>", "<U+FBB3>", "<U+FBB4>", "<U+FBB5>", "<U+FBB6>", "<U+FBB7>",
    "<U+FBB8>", "<U+FBB9>", "<U+FBBA>", "<U+FBBB>", "<U+FBBC>", "<U+FBBD>",
    "<U+FBBE>", "<U+FBBF>", "<U+FBC0>", "<U+FBC1>", "<U+FBC2>", "<U+FE00>",
    "<U+FE01>", "<U+FE02>", "<U+FE03>", "<U+FE04>", "<U+FE05>", "<U+FE06>",
    "<U+FE07>", "<U+FE08>", "<U+FE09>", "<U+FE0A>", "<U+FE0B>", "<U+FE0C>",
    "<U+FE0D>", "<U+FE0E>", "<U+FE0F>", "<U+FE13>", "<U+FE20>", "<U+FE21>",
    "<U+FE22>", "<U+FE23>", "<U+FE24>", "<U+FE25>", "<U+FE26>", "<U+FE27>",
    "<U+FE28>", "<U+FE29>", "<U+FE2A>", "<U+FE2B>", "<U+FE2C>", "<U+FE2D>",
    "<U+FE2E>", "<U+FE2F>", "<U+FE52>", "<U+FE55>", "<U+FEFF>", "<U+FF07>",
    "<U+FF0E>", "<U+FF1A>", "<U+FF3E>", "<U+FF40>", "<U+FF70>", "<U+FF9E>",
    "<U+FF9F>", "<U+FFE3>", "<U+FFF9>", "<U+FFFA>", "<U+FFFB>"
  }

\* the case-ignorable characters outside it: the names of the two UTF-16
\* code units of each, one after the other
CaseIgnorablePairs ==
  {
    "<U+D800><U+DDFD>", "<U+D800><U+DEE0>", "<U+D800><U+DF76>", "<U+D800><U+DF77>",
    "<U+D800><U+DF78>", "<U+D800><U+DF79>", "<U+D800><U+DF7A>", "<U+D801><U+DF80>",
    "<U+D801><U+DF81>", "<U+D801><U+DF82>", "<U+D801><U+DF83>", "<U+D801><U+DF84>",
    "<U+D801><U+DF85>", "<U+D801><U+DF87>", "<U+D801><U+DF88>", "<U+D801><U+DF89>",
    "<U+D801><U+DF8A>", "<U+D801><U+DF8B>", "<U+D801><U+DF8C>", "<U+D801><U+DF8D>",
    "<U+D801><U+DF8E>", "<U+D801><U+DF8F>", "<U+D801><U+DF90>", "<U+D801><U+DF91>",
    "<U+D801><U+DF92>", "<U+D801><U+DF93>", "<U+D801><U+DF94>", "<U+D801><U+DF95>",
    "<U+D801><U+DF96>", "<U+D801><U+DF97>", "<U+D801><U+DF98>", "<U+D801><U+DF99>",
    "<U+D801><U+DF9A>", "<U+D801><U+DF9B>", "<U+D801><U+DF9C>", "<U+D801><U+DF9D>",
    "<U+D801><U+DF9E>", "<U+D801><U+DF9F>", "<U+D801><U+DFA0>", "<U+D801><U+DFA1>",
    "<U+D801><U+DFA2>", "<U+D801><U+DFA3>", "<U+D801><U+DFA4>", "<U+D801><U+DFA5>",
    "<U+D801><U+DFA6>", "<U+D801><U+DFA7>", "<U+D801><U+DFA8>", "<U+D801><U+DFA9>",
    "<U+D801><U+DFAA>", "<U+D801><U+DFAB>", "<U+D801><U+DFAC>", "<U+D801><U+DFAD>",
    "<U+D801><U+DFAE>", "<U+D801><U+DFAF>", "<U+D801><U+DFB0>", "<U+D801><U+DFB2>",
    "<U+D801><U+DFB3>", "<U+D801><U+DFB4>", "<U+D801><U+DFB5>", "<U+D801><U+DFB6>",
    "<U+D801><U+DFB7>", "<U+D801><U+DFB8>", "<U+D801><U+DFB9>", "<U+D801><U+DFBA>",
    "<U+D802><U+DE01>", "<U+D802><U+DE02>", "<U+D802><U+DE03>", "<U+D802><U+DE05>",
    "<U+D802><U+DE06>", "<U+D802><U+DE0C>", "<U+D802><U+DE0D>", "<U+D802><U+DE0E>",
    "<U+D802><U+DE0F>", "<U+D802><U+DE38>", "<U+D802><U+DE39>", "<U+D802><U+DE3A>",
    "<U+D802><U+DE3F>", "<U+D802><U+DEE5>", "<U+D802><U+DEE6>", "<U+D803><U+DD24>",
    "<U+D803><U+DD25>", "<U+D803><U+DD26>", "<U+D803><U+DD27>", "<U+D803><U+DD4E>",
    "<U+D803><U+DD69>", "<U+D803><U+DD6A>", "<U+D803><U+DD6B>", "<U+D803><U+DD6C>",
    "<U+D803><U+DD6D>", "<U+D803><U+DD6F>", "<U+D803><U+DEAB>", "<U+D803><U+DEAC>",
    "<U+D803><U+DEC5>", "<U+D803><U+DEFA>", "<U+D803><U+DEFB>", "<U+D803><U+DEFC>",
    "<U+D803><U+DEFD>", "<U+D803><U+DEFE>", "<U+D803><U+DEFF>", "<U+D803><U+DF46>",
    "<U+D803><U+DF47>", "<U+D803><U+DF48>", "<U+D803><U+DF49>", "<U+D803><U+DF4A>",
    "<U+D803><U+DF4B>", "<U+D803><U+DF4C>", "<U+D803><U+DF4D>", "<U+D803><U+DF4E>",
    "<U+D803><U+DF4F>", "<U+D803><U+DF50>", "<U+D803><U+DF82>", "<U+D803><U+DF83>",
    "<U+D803><U+DF84>", "<U+D803><U+DF85>", "<U+D804><U+DC01>", "<U+D804><U+DC38>",
    "<U+D804><U+DC39>", "<U+D804><U+DC3A>", "<U+D804><U+DC3B>", "<U+D804><U+DC3C>",
    "<U+D804><U+DC3D>", "<U+D804><U+DC3E>", "<U+D804><U+DC3F>", "<U+D804><U+DC40>",
    "<U+D804><U+DC41>", "<U+D804><U+DC42>", "<U+D804><U+DC43>", "<U+D804><U+DC44>",
    "<U+D804><U+DC45>", "<U+D804><U+DC46>", "<U+D804><U+DC70>", "<U+D804><U+DC73>",
    "<U+D804><U+DC74>", "<U+D804><U+DC7F>", "<U+D804><U+DC80>", "<U+D804><U+DC81>",
    "<U+D804><U+DCB3>", "<U+D804><U+DCB4>", "<U+D804><U+DCB5>", "<U+D804><U+DCB6>",
    "<U+D804><U+DCB9>", "<U+D804><U+DCBA>", "<U+D804><U+DCBD>", "<U+D804><U+DCC2>",
    "<U+D804><U+DCCD>", "<U+D804><U+DD00>", "<U+D804><U+DD01>", "<U+D804><U+DD02>",
    "<U+D804><U+DD27>", "<U+D804><U+DD28>", "<U+D804><U+DD29>", "<U+D804><U+DD2A>",
    "<U+D804><U+DD2B>", "<U+D804><U+DD2D>", "<U+D804><U+DD2E>", "<U+D804><U+DD2F>",
    "<U+D804><U+DD30>", "<U+D804><U+DD31>", "<U+D804><U+DD32>", "<U+D804><U+DD33>",
    "<U+D804><U+DD34>", "<U+D804><U+DD73>", "<U+D804><U+DD80>", "<U+D804><U+DD81>",
    "<U+D804><U+DDB6>", "<U+D804><U+DDB7>", "<U+D804><U+DDB8>", "<U+D804><U+DDB9>",
    "<U+D804><U+DDBA>", "<U+D804><U+DDBB>", "<U+D804><U+DDBC>", "<U+D804><U+DDBD>",
    "<U+D804><U+DDBE>", "<U+D804><U+DDC9>", "<U+D804><U+DDCA>", "<U+D804><U+DDCB>",
    "<U+D804><U+DDCC>", "<U+D804><U+DDCF>", "<U+D804><U+DE2F>", "<U+D804><U+DE30>",
    "<U+D804><U+DE31>", "<U+D804><U+DE34>", "<U+D804><U+DE36>", "<U+D804><U+DE37>",
    "<U+D804><U+DE3E>", "<U+D804><U+DE41>", "<U+D804><U+DEDF>", "<U+D804><U+DEE3>",
    "<U+D804><U+DEE4>", "<U+D804><U+DEE5>", "<U+D804><U+DEE6>", "<U+D804><U+DEE7>",
    "<U+D804><U+DEE8>", "<U+D804><U+DEE9>", "<U+D804><U+DEEA>", "<U+D804><U+DF00>",
    "<U+D804><U+DF01>", "<U+D804><U+DF3B>", "<U+D804><U+DF3C>", "<U+D804><U+DF40>",
    "<U+D804><U+DF66>", "<U+D804><U+DF67>", "<U+D804><U+DF68>", "<U+D804><U+DF69>",
    "<U+D804><U+DF6A>", "<U+D804><U+DF6B>", "<U+D804><U+DF6C>", "<U+D804><U+DF70>",
    "<U+D804><U+DF71>", "<U+D804><U+DF72>", "<U+D804><U+DF73>", "<U+D804><U+DF74>",
    "<U+D804><U+DFBB>", "<U+D804><U+DFBC>", "<U+D804><U+DFBD>", "<U+D804><U+DFBE>",
    "<U+D804><U+DFBF>", "<U+D804><U+DFC0>", "<U+D804><U+DFCE>", "<U+D804><U+DFD0>",
    "<U+D804><U+DFD2>", "<U+D804><U+DFE1>", "<U+D804><U+DFE2>", "<U+D805><U+DC38>",
    "<U+D805><U+DC39>", "<U+D805><U+DC3A>", "<U+D805><U+DC3B>", "<U+D805><U+DC3C>",
    "<U+D805><U+DC3D>", "<U+D805><U+DC3E>", "<U+D805><U+DC3F>", "<U+D805><U+DC42>",
    "<U+D805><U+DC43>", "<U+D805><U+DC44>", "<U+D805><U+DC46>", "<U+D805><U+DC5E>",
    "<U+D805><U+DCB3>", "<U+D805><U+DCB4>", "<U+D805><U+DCB5>", "<U+D805><U+DCB6>",
    "<U+D805><U+DCB7>", "<U+D805><U+DCB8>", "<U+D805><U+DCBA>", "<U+D805><U+DCBF>",
    "<U+D805><U+DCC0>", "<U+D805><U+DCC2>", "<U+D805><U+DCC3>", "<U+D805><U+DDB2>",
    "<U+D805><U+DDB3>", "<U+D805><U+DDB4>", "<U+D805><U+DDB5>", "<U+D805><U+DDBC>",
    "<U+D805><U+DDBD>", "<U+D805><U+DDBF>", "<U+D805><U+DDC0>", "<U+D805><U+DDDC>",
    "<U+D805><U+DDDD>", "<U+D805><U+DE33>", "<U+D805><U+DE34>", "<U+D805><U+DE35>",
    "<U+D805><U+DE36>", "<U+D805><U+DE37>", "<U+D805><U+DE38>", "<U+D805><U+DE39>",
    "<U+D805><U+DE3A>", "<U+D805><U+DE3D>", "<U+D805><U+DE3F>", "<U+D805><U+DE40>",
    "<U+D805><U+DEAB>", "<U+D805><U+DEAD>", "<U+D805><U+DEB0>", "<U+D805><U+DEB1>",
    "<U+D805><U+DEB2>", "<U+D805><U+DEB3>", "<U+D805><U+DEB4>", "<U+D805><U+DEB5>",
    "<U+D805><U+DEB7>", "<U+D805><U+DF1D>", "<U+D805><U+DF1F>", "<U+D805><U+DF22>",
    "<U+D805><U+DF23>", "<U+D805><U+DF24>", "<U+D805><U+DF25>", "<U+D805><U+DF27>",
    "<U+D805><U+DF28>", "<U+D805><U+DF29>", "<U+D805><U+DF2A>", "<U+D805><U+DF2B>",
    "<U+D806><U+DC2F>", "<U+D806><U+DC30>", "<U+D806><U+DC31>", "<U+D806><U+DC32>",
    "<U+D806><U+DC33>", "<U+D806><U+DC34>", "<U+D806><U+DC35>", "<U+D806><U+DC36>",
    "<U+D806><U+DC37>", "<U+D806><U+DC39>", "<U+D806><U+DC3A>", "<U+D806><U+DD3B>",
    "<U+D806><U+DD3C>", "<U+D806><U+DD3E>", "<U+D806><U+DD43>", "<U+D806><U+DDD4>",
    "<U+D806><U+DDD5>", "<U+D806><U+DDD6>", "<U+D806><U+DDD7>", "<U+D806><U+DDDA>",
    "<U+D806><U+DDDB>", "<U+D806><U+DDE0>", "<U+D806><U+DE01>", "<U+D806><U+DE02>",
    "<U+D806><U+DE03>", "<U+D806><U+DE04>", "<U+D806><U+DE05>", "<U+D806><U+DE06>",
    "<U+D806><U+DE07>", "<U+D806><U+DE08>", "<U+D806><U+DE09>", "<U+D806><U+DE0A>",
    "<U+D806><U+DE33>", "<U+D806><U+DE34>", "<U+D806><U+DE35>", "<U+D806><U+DE36>",
    "<U+D806><U+DE37>", "<U+D806><U+DE38>", "<U+D806><U+DE3B>", "<U+D806><U+DE3C>",
    "<U+D806><U+DE3D>", "<U+D806><U+DE3E>", "<U+D806><U+DE47>", "<U+D806><U+DE51>",
    "<U+D806><U+DE52>", "<U+D806><U+DE53>", "<U+D806><U+DE54>", "<U+D806><U+DE55>",
    "<U+D806><U+DE56>", "<U+D806><U+DE59>", "<U+D806><U+DE5A>", "<U+D806><U+DE5B>",
    "<U+D806><U+DE8A>", "<U+D806><U+DE8B>", "<U+D806><U+DE8C>", "<U+D806><U+DE8D>",
    "<U+D806><U+DE8E>", "<U+D806><U+DE8F>", "<U+D806><U+DE90>", "<U+D806><U+DE91>",
    "<U+D806><U+DE92>", "<U+D806><U+DE93>", "<U+D806><U+DE94>", "<U+D806><U+DE95>",
    "<U+D806><U+DE96>", "<U+D806><U+DE98>", "<U+D806><U+DE99>", "<U+D806><U+DF60>",
    "<U+D806><U+DF62>", "<U+D806><U+DF63>", "<U+D806><U+DF64>", "<U+D806><U+DF66>",
    "<U+D807><U+DC30>", "<U+D807><U+DC31>", "<U+D807><U+DC32>", "<U+D807><U+DC33>",
    "<U+D807><U+DC34>", "<U+D807><U+DC35>", "<U+D807><U+DC36>", "<U+D807><U+DC38>",
    "<U+D807><U+DC39>", "<U+D807><U+DC3A>", "<U+D807><U+DC3B>", "<U+D807><U+DC3C>",
    "<U+D807><U+DC3D>", "<U+D807><U+DC3F>", "<U+D807><U+DC92>", "<U+D807><U+DC93>",
    "<U+D807><U+DC94>", "<U+D807><U+DC95>", "<U+D807><U+DC96>", "<U+D807><U+DC97>",
    "<U+D807><U+DC98>", "<U+D807><U+DC99>", "<U+D807><U+DC9A>", "<U+D807><U+DC9B>",
    "<U+D807><U+DC9C>", "<U+D807><U+DC9D>", "<U+D807><U+DC9E>", "<U+D807><U+DC9F>",
    "<U+D807><U+DCA0>", "<U+D807><U+DCA1>", "<U+D807><U+DCA2>", "<U+D807><U+DCA3>",
    "<U+D807><U+DCA4>", "<U+D807><U+DCA5>", "<U+D807><U+DCA6>", "<U+D807><U+DCA7>",
    "<U+D807><U+DCAA>", "<U+D807><U+DCAB>", "<U+D807><U+DCAC>", "<U+D807><U+DCAD>",
    "<U+D807><U+DCAE>", "<U+D807><U+DCAF>", "<U+D807><U+DCB0>", "<U+D807><U+DCB2>",
    "<U+D807><U+DCB3>", "<U+D807><U+DCB5>", "<U+D807><U+DCB6>", "<U+D807><U+DD31>",
    "<U+D807><U+DD32>", "<U+D807><U+DD33>", "<U+D807><U+DD34>", "<U+D807><U+DD35>",
    "<U+D807><U+DD36>", "<U+D807><U+DD3A>", "<U+D807><U+DD3C>", "<U+D807><U+DD3D>",
    "<U+D807><U+DD3F>", "<U+D807><U+DD40>", "<U+D807><U+DD41>", "<U+D807><U+DD42>",
    "<U+D807><U+DD43>", "<U+D807><U+DD44>", "<U+D807><U+DD45>", "<U+D807><U+DD47>",
    "<U+D807><U+DD90>", "<U+D807><U+DD91>", "<U+D807><U+DD95>", "<U+D807><U+DD97>",
    "<U+D807><U+DDD9>", "<U+D807><U+DEF3>", "<U+D807><U+DEF4>", "<U+D807><U+DF00>",
    "<U+D807><U+DF01>", "<U+D807><U+DF36>", "<U+D807><U+DF37>", "<U+D807><U+DF38>",
    "<U+D807><U+DF39>", "<U+D807><U+DF3A>", "<U+D807><U+DF40>", "<U+D807><U+DF42>",
    "<U+D807><U+DF5A>", "<U+D80D><U+DC30>", "<U+D80D><U+DC31>", "<U+D80D><U+DC32>",
    "<U+D80D><U+DC33>", "<U+D80D><U+DC34>", "<U+D80D><U+DC35>", "<U+D80D><U+DC36>",
    "<U+D80D><U+DC37>", "<U+D80D><U+DC38>", "<U+D80D><U+DC39>", "<U+D80D><U+DC3A>",
    "<U+D80D><U+DC3B>", "<U+D80D><U+DC3C>", "<U+D80D><U+DC3D>", "<U+D80D><U+DC3E>",
    "<U+D80D><U+DC3F>", "<U+D80D><U+DC40>", "<U+D80D><U+DC47>", "<U+D80D><U+DC48>",
    "<U+D80D><U+DC49>", "<U+D80D><U+DC4A>", "<U+D80D><U+DC4B>", "<U+D80D><U+DC4C>",
    "<U+D80D><U+DC4D>", "<U+D80D><U+DC4E>", "<U+D80D><U+DC4F>", "<U+D80D><U+DC50>",
    "<U+D80D><U+DC51>", "<U+D80D><U+DC52>", "<U+D80D><U+DC53>", "<U+D80D><U+DC54>",
    "<U+D80D><U+DC55>", "<U+D818><U+DD1E>", "<U+D818><U+DD1F>", "<U+D818><U+DD20>",
    "<U+D818><U+DD21>", "<U+D818><U+DD22>", "<U+D818><U+DD23>", "<U+D818><U+DD24>",
    "<U+D818><U+DD25>", "<U+D818><U+DD26>", "<U+D818><U+DD27>", "<U+D818><U+DD28>",
    "<U+D818><U+DD29>", "<U+D818><U+DD2D>", "<U+D818><U+DD2E>", "<U+D818><U+DD2F>",
    "<U+D81A><U+DEF0>", "<U+D81A><U+DEF1>", "<U+D81A><U+DEF2>", "<U+D81A><U+DEF3>",
    "<U+D81A><U+DEF4>", "<U+D81A><U+DF30>", "<U+D81A><U+DF31>", "<U+D81A><U+DF32>",
    "<U+D81A><U+DF33>", "<U+D81A><U+DF34>", "<U+D81A><U+DF35>", "<U+D81A><U+DF36>",
    "<U+D81A><U+DF40>", "<U+D81A><U+DF41>", "<U+D81A><U+DF42>", "<U+D81A><U+DF43>",
    "<U+D81B><U+DD40>", "<U+D81B><U+DD41>", "<U+D81B><U+DD42>", "<U+D81B><U+DD6B>",
    "<U+D81B><U+DD6C>", "<U+D81B><U+DF4F>", "<U+D81B><U+DF8F>", "<U+D81B><U+DF90>",
    "<U+D81B><U+DF91>", "<U+D81B><U+DF92>", "<U+D81B><U+DF93>", "<U+D81B><U+DF94>",
    "<U+D81B><U+DF95>", "<U+D81B><U+DF96>", "<U+D81B><U+DF97>", "<U+D81B><U+DF98>",
    "<U+D81B><U+DF99>", "<U+D81B><U+DF9A>", "<U+D81B><U+DF9B>", "<U+D81B><U+DF9C>",
    "<U+D81B><U+DF9D>", "<U+D81B><U+DF9E>", "<U+D81B><U+DF9F>", "<U+D81B><U+DFE0>",
    "<U+D81B><U+DFE1>", "<U+D81B><U+DFE3>", "<U+D81B><U+DFE4>", "<U+D81B><U+DFF2>",
    "<U+D81B><U+DFF3>", "<U+D82B><U+DFF0>", "<U+D82B><U+DFF1>", "<U+D82B><U+DFF2>",
    "<U+D82B><U+DFF3>", "<U+D82B><U+DFF5>", "<U+D82B><U+DFF6>", "<U+D82B><U+DFF7>",
    "<U+D82B><U+DFF8>", "<U+D82B><U+DFF9>", "<U+D82B><U+DFFA>", "<U+D82B><U+DFFB>",
    "<U+D82B><U+DFFD>", "<U+D82B><U+DFFE>", "<U+D82F><U+DC9D>", "<U+D82F><U+DC9E>",
    "<U+D82F><U+DCA0>", "<U+D82F><U+DCA1>", "<U+D82F><U+DCA2>", "<U+D82F><U+DCA3>",
    "<U+D833><U+DF00>", "<U+D833><U+DF01>", "<U+D833><U+DF02>", "<U+D833><U+DF03>",
    "<U+D833><U+DF04>", "<U+D833><U+DF05>", "<U+D833><U+DF06>", "<U+D833><U+DF07>",
    "<U+D833><U+DF08>", "<U+D833><U+DF09>", "<U+D833><U+DF0A>", "<U+D833><U+DF0B>",
    "<U+D833><U+DF0C>", "<U+D833><U+DF0D>", "<U+D833><U+DF0E>", "<U+D833><U+DF0F>",
    "<U+D833><U+DF10>", "<U+D833><U+DF11>", "<U+D833><U+DF12>", "<U+D833><U+DF13>",
    "<U+D833><U+DF14>", "<U+D833><U+DF15>", "<U+D833><U+DF16>", "<U+D833><U+DF17>",
    "<U+D833><U+DF18>", "<U+D833><U+DF19>", "<U+D833><U+DF1A>", "<U+D833><U+DF1B>",
    "<U+D833><U+DF1C>", "<U+D833><U+DF1D>", "<U+D833><U+DF1E>", "<U+D833><U+DF1F>",
    "<U+D833><U+DF20>", "<U+D833><U+DF21>", "<U+D833><U+DF22>", "<U+D833><U+DF23>",
    "<U+D833><U+DF24>", "<U+D833><U+DF25>", "<U+D833><U+DF26>", "<U+D833><U+DF27>",
    "<U+D833><U+DF28>", "<U+D833><U+DF29>", "<U+D833><U+DF2A>", "<U+D833><U+DF2B>",
    "<U+D833><U+DF2C>", "<U+D833><U+DF2D>", "<U+D833><U+DF30>", "<U+D833><U+DF31>",
    "<U+D833><U+DF32>", "<U+D833><U+DF33>", "<U+D833><U+DF34>", "<U+D833><U+DF35>",
    "<U+D833><U+DF36>", "<U+D833><U+DF37>", "<U+D833><U+DF38>", "<U+D833><U+DF39>",
    "<U+D833><U+DF3A>", "<U+D833><U+DF3B>", "<U+D833><U+DF3C>", "<U+D833><U+DF3D>",
    "<U+D833><U+DF3E>", "<U+D833><U+DF3F>", "<U+D833><U+DF40>", "<U+D833><U+DF41>",
    "<U+D833><U+DF42>", "<U+D833><U+DF43>", "<U+D833><U+DF44>", "<U+D833><U+DF45>",
    "<U+D833><U+DF46>", "<U+D834><U+DD67>", "<U+D834><U+DD68>", "<U+D834><U+DD69>",
    "<U+D834><U+DD73>", "<U+D834><U+DD74>", "<U+D834><U+DD75>", "<U+D834><U+DD76>",
    "<U+D834><U+DD77>", "<U+D834><U+DD78>", "<U+D834><U+DD79>", "<U+D834><U+DD7A>",
    "<U+D834><U+DD7B>", "<U+D834><U+DD7C>", "<U+D834><U+DD7D>", "<U+D834><U+DD7E>",
    "<U+D834><U+DD7F>", "<U+D834><U+DD80>", "<U+D834><U+DD81>", "<U+D834><U+DD82>",
    "<U+D834><U+DD85>", "<U+D834><U+DD86>", "<U+D834><U+DD87>", "<U+D834><U+DD88>",
    "<U+D834><U+DD89>", "<U+D834><U+DD8A>", "<U+D834><U+DD8B>", "<U+D834><U+DDAA>",
    "<U+D834><U+DDAB>", "<U+D834><U+DDAC>", "<U+D834><U+DDAD>", "<U+D834><U+DE42>",
    "<U+D834><U+DE43>", "<U+D834><U+DE44>", "<U+D836><U+DE00>", "<U+D836><U+DE01>",
    "<U+D836><U+DE02>", "<U+D836><U+DE03>", "<U+D836><U+DE04>", "<U+D836><U+DE05>",
    "<U+D836><U+DE06>", "<U+D836><U+DE07>", "<U+D836><U+DE08>", "<U+D836><U+DE09>",
    "<U+D836><U+DE0A>", "<U+D836><U+DE0B>", "<U+D836><U+DE0C>", "<U+D836><U+DE0D>",
    "<U+D836><U+DE0E>", "<U+D836><U+DE0F>", "<U+D836><U+DE10>", "<U+D836><U+DE11>",
    "<U+D836><U+DE12>", "<U+D836><U+DE13>", "<U+D836><U+DE14>", "<U+D836><U+DE15>",
    "<U+D836><U+DE16>", "<U+D836><U+DE17>", "<U+D836><U+DE18>", "<U+D836><U+DE19>",
    "<U+D836><U+DE1A>", "<U+D836><U+DE1B>", "<U+D836><U+DE1C>", "<U+D836><U+DE1D>",
    "<U+D836><U+DE1E>", "<U+D836><U+DE1F>", "<U+D836><U+DE20>", "<U+D836><U+DE21>",
    "<U+D836><U+DE22>", "<U+D836><U+DE23>", "<U+D836><U+DE24>", "<U+D836><U+DE25>",
    "<U+D836><U+DE26>", "<U+D836><U+DE27>", "<U+D836><U+DE28>", "<U+D836><U+DE29>",
    "<U+D836><U+DE2A>", "<U+D836><U+DE2B>", "<U+D836><U+DE2C>", "<U+D836><U+DE2D>",
    "<U+D836><U+DE2E>", "<U+D836><U+DE2F>", "<U+D836><U+DE30>", "<U+D836><U+DE31>",
    "<U+D836><U+DE32>", "<U+D836><U+DE33>", "<U+D836><U+DE34>", "<U+D836><U+DE35>",
    "<U+D836><U+DE36>", "<U+D836><U+DE3B>", "<U+D836><U+DE3C>", "<U+D836><U+DE3D>",
    "<U+D836><U+DE3E>", "<U+D836><U+DE3F>", "<U+D836><U+DE40>", "<U+D836><U+DE41>",
    "<U+D836><U+DE42>", "<U+D836><U+DE43>", "<U+D836><U+DE44>", "<U+D836><U+DE45>",
    "<U+D836><U+DE46>", "<U+D836><U+DE47>", "<U+D836><U+DE48>", "<U+D836><U+DE49>",
    "<U+D836><U+DE4A>", "<U+D836><U+DE4B>", "<U+D836><U+DE4C>", "<U+D836><U+DE4D>",
    "<U+D836><U+DE4E>", "<U+D836><U+DE4F>", "<U+D836><U+DE50>", "<U+D836><U+DE51>",
    "<U+D836><U+DE52>", "<U+D836><U+DE53>", "<U+D836><U+DE54>", "<U+D836><U+DE55>",
    "<U+D836><U+DE56>", "<U+D836><U+DE57>", "<U+D836><U+DE58>", "<U+D836><U+DE59>",
    "<U+D836><U+DE5A>", "<U+D836><U+DE5B>", "<U+D836><U+DE5C>", "<U+D836><U+DE5D>",
    "<U+D836><U+DE5E>", "<U+D836><U+DE5F>", "<U+D836><U+DE60>", "<U+D836><U+DE61>",
    "<U+D836><U+DE62>", "<U+D836><U+DE63>", "<U+D836><U+DE64>", "<U+D836><U+DE65>",
    "<U+D836><U+DE66>", "<U+D836><U+DE67>", "<U+D836><U+DE68>", "<U+D836><U+DE69>",
    "<U+D836><U+DE6A>", "<U+D836><U+DE6B>", "<U+D836><U+DE6C>", "<U+D836><U+DE75>",
    "<U+D836><U+DE84>", "<U+D836><U+DE9B>", "<U+D836><U+DE9C>", "<U+D836><U+DE9D>",
    "<U+D836><U+DE9E>", "<U+D836><U+DE9F>", "<U+D836><U+DEA1>", "<U+D836><U+DEA2>",
    "<U+D836><U+DEA3>", "<U+D836><U+DEA4>", "<U+D836><U+DEA5>", "<U+D836><U+DEA6>",
    "<U+D836><U+DEA7>", "<U+D836><U+DEA8>", "<U+D836><U+DEA9>", "<U+D836><U+DEAA>",
    "<U+D836><U+DEAB>", "<U+D836><U+DEAC>", "<U+D836><U+DEAD>", "<U+D836><U+DEAE>",
    "<U+D836><U+DEAF>", "<U+D838><U+DC00>", "<U+D838><U+DC01>", "<U+D838><U+DC02>",
    "<U+D838><U+DC03>", "<U+D838><U+DC04>", "<U+D838><U+DC05>", "<U+D838><U+DC06>",
    "<U+D838><U+DC08>", "<U+D838><U+DC09>", "<U+D838><U+DC0A>", "<U+D838><U+DC0B>",
    "<U+D838><U+DC0C>", "<U+D838><U+DC0D>", "<U+D838><U+DC0E>", "<U+D838><U+DC0F>",
    "<U+D838><U+DC10>", "<U+D838><U+DC11>", "<U+D838><U+DC12>", "<U+D838><U+DC13>",
    "<U+D838><U+DC14>", "<U+D838><U+DC15>", "<U+D838><U+DC16>", "<U+D838><U+DC17>",
    "<U+D838><U+DC18>", "<U+D838><U+DC1B>", "<U+D838><U+DC1C>", "<U+D838><U+DC1D>",
    "<U+D838><U+DC1E>", "<U+D838><U+DC1F>", "<U+D838><U+DC20>", "<U+D838><U+DC21>",
    "<U+D838><U+DC23>", "<U+D838><U+DC24>", "<U+D838><U+DC26>", "<U+D838><U+DC27>",
    "<U+D838><U+DC28>", "<U+D838><U+DC29>", "<U+D838><U+DC2A>", "<U+D838><U+DC30>",
    "<U+D838><U+DC31>", "<U+D838><U+DC32>", "<U+D838><U+DC33>", "<U+D838><U+DC34>",
    "<U+D838><U+DC35>", "<U+D838><U+DC36>", "<U+D838><U+DC37>", "<U+D838><U+DC38>",
    "<U+D838><U+DC39>", "<U+D838><U+DC3A>", "<U+D838><U+DC3B>", "<U+D838><U+DC3C>",
    "<U+D838><U+DC3D>", "<U+D838><U+DC3E>", "<U+D838><U+DC3F>", "<U+D838><U+DC40>",
    "<U+D838><U+DC41>", "<U+D838><U+DC42>", "<U+D838><U+DC43>", "<U+D838><U+DC44>",
    "<U+D838><U+DC45>", "<U+D838><U+DC46>", "<U+D838><U+DC47>", "<U+D838><U+DC48>",
    "<U+D838><U+DC49>", "<U+D838><U+DC4A>", "<U+D838><U+DC4B>", "<U+D838><U+DC4C>",
    "<U+D838><U+DC4D>", "<U+D838><U+DC4E>", "<U+D838><U+DC4F>", "<U+D838><U+DC50>",
    "<U+D838><U+DC51>", "<U+D838><U+DC52>", "<U+D838><U+DC53>", "<U+D838><U+DC54>",
    "<U+D838><U+DC55>", "<U+D838><U+DC56>", "<U+D838><U+DC57>", "<U+D838><U+DC58>",
    "<U+D838><U+DC59>", "<U+D838><U+DC5A>", "<U+D838><U+DC5B>", "<U+D838><U+DC5C>",
    "<U+D838><U+DC5D>", "<U+D838><U+DC5E>", "<U+D838><U+DC5F>", "<U+D838><U+DC60>",
    "<U+D838><U+DC61>", "<U+D838><U+DC62>", "<U+D838><U+DC63>", "<U+D838><U+DC64>",
    "<U+D838><U+DC65>", "<U+D838><U+DC66>", "<U+D838><U+DC67>", "<U+D838><U+DC68>",
    "<U+D838><U+DC69>", "<U+D838><U+DC6A>", "<U+D838><U+DC6B>", "<U+D838><U+DC6C>",
    "<U+D838><U+DC6D>", "<U+D838><U+DC8F>", "<U+D838><U+DD30>", "<U+D838><U+DD31>",
    "<U+D838><U+DD32>", "<U+D838><U+DD33>", "<U+D838><U+DD34>", "<U+D838><U+DD35>",
    "<U+D838><U+DD36>", "<U+D838><U+DD37>", "<U+D838><U+DD38>", "<U+D838><U+DD39>",
    "<U+D838><U+DD3A>", "<U+D838><U+DD3B>", "<U+D838><U+DD3C>", "<U+D838><U+DD3D>",
    "<U+D838><U+DEAE>", "<U+D838><U+DEEC>", "<U+D838><U+DEED>", "<U+D838><U+DEEE>",
    "<U+D838><U+DEEF>", "<U+D839><U+DCEB>", "<U+D839><U+DCEC>", "<U+D839><U+DCED>",
    "<U+D839><U+DCEE>", "<U+D839><U+DCEF>", "<U+D839><U+DDEE>", "<U+D839><U+DDEF>",
    "<U+D839><U+DEE3>", "<U+D839><U+DEE6>", "<U+D839><U+DEEE>", "<U+D839><U+DEEF>",
    "<U+D839><U+DEF5>", "<U+D839><U+DEFF>", "<U+D83A><U+DCD0>", "<U+D83A><U+DCD1>",
    "<U+D83A><U+DCD2>", "<U+D83A><U+DCD3>", "<U+D83A><U+DCD4>", "<U+D83A><U+DCD5>",
    "<U+D83A><U+DCD6>", "<U+D83A><U+DD44>", "<U+D83A><U+DD45>", "<U+D83A><U+DD46>",
    "<U+D83A><U+DD47>", "<U+D83A><U+DD48>", "<U+D83A><U+DD49>", "<U+D83A><U+DD4A>",
    "<U+D83A><U+DD4B>", "<U+D83C><U+DFFB>", "<U+D83C><U+DFFC>", "<U+D83C><U+DFFD>",
    "<U+D83C><U+DFFE>", "<U+D83C><U+DFFF>", "<U+DB40><U+DC01>", "<U+DB40><U+DC20>",
    "<U+DB40><U+DC21>", "<U+DB40><U+DC22>", "<U+DB40><U+DC23>", "<U+DB40><U+DC24>",
    "<U+DB40><U+DC25>", "<U+DB40><U+DC26>", "<U+DB40><U+DC27>", "<U+DB40><U+DC28>",
    "<U+DB40><U+DC29>", "<U+DB40><U+DC2A>", "<U+DB40><U+DC2B>", "<U+DB40><U+DC2C>",
    "<U+DB40><U+DC2D>", "<U+DB40><U+DC2E>", "<U+DB40><U+DC2F>", "<U+DB40><U+DC30>",
    "<U+DB40><U+DC31>", "<U+DB40><U+DC32>", "<U+DB40><U+DC33>", "<U+DB40><U+DC34>",
    "<U+DB40><U+DC35>", "<U+DB40><U+DC36>", "<U+DB40><U+DC37>", "<U+DB40><U+DC38>",
    "<U+DB40><U+DC39>", "<U+DB40><U+DC3A>", "<U+DB40><U+DC3B>", "<U+DB40><U+DC3C>",
    "<U+DB40><U+DC3D>", "<U+DB40><U+DC3E>", "<U+DB40><U+DC3F>", "<U+DB40><U+DC40>",
    "<U+DB40><U+DC41>", "<U+DB40><U+DC42>", "<U+DB40><U+DC43>", "<U+DB40><U+DC44>",
    "<U+DB40><U+DC45>", "<U+DB40><U+DC46>", "<U+DB40><U+DC47>", "<U+DB40><U+DC48>",
    "<U+DB40><U+DC49>", "<U+DB40><U+DC4A>", "<U+DB40><U+DC4B>", "<U+DB40><U+DC4C>",
    "<U+DB40><U+DC4D>", "<U+DB40><U+DC4E>", "<U+DB40><U+DC4F>", "<U+DB40><U+DC50>",
    "<U+DB40><U+DC51>", "<U+DB40><U+DC52>", "<U+DB40><U+DC53>", "<U+DB40><U+DC54>",
    "<U+DB40><U+DC55>", "<U+DB40><U+DC56>", "<U+DB40><U+DC57>", "<U+DB40><U+DC58>",
    "<U+DB40><U+DC59>", "<U+DB40><U+DC5A>", "<U+DB40><U+DC5B>", "<U+DB40><U+DC5C>",
    "<U+DB40><U+DC5D>", "<U+DB40><U+DC5E>", "<U+DB40><U+DC5F>", "<U+DB40><U+DC60>",
    "<U+DB40><U+DC61>", "<U+DB40><U+DC62>", "<U+DB40><U+DC63>", "<U+DB40><U+DC64>",
    "<U+DB40><U+DC65>", "<U+DB40><U+DC66>", "<U+DB40><U+DC67>", "<U+DB40><U+DC68>",
    "<U+DB40><U+DC69>", "<U+DB40><U+DC6A>", "<U+DB40><U+DC6B>", "<U+DB40><U+DC6C>",
    "<U+DB40><U+DC6D>", "<U+DB40><U+DC6E>", "<U+DB40><U+DC6F>", "<U+DB40><U+DC70>",
    "<U+DB40><U+DC71>", "<U+DB40><U+DC72>", "<U+DB40><U+DC73>", "<U+DB40><U+DC74>",
    "<U+DB40><U+DC75>", "<U+DB40><U+DC76>", "<U+DB40><U+DC77>", "<U+DB40><U+DC78>",
    "<U+DB40><U+DC79>", "<U+DB40><U+DC7A>", "<U+DB40><U+DC7B>", "<U+DB40><U+DC7C>",
    "<U+DB40><U+DC7D>", "<U+DB40><U+DC7E>", "<U+DB40><U+DC7F>", "<U+DB40><U+DD00>",
    "<U+DB40><U+DD01>", "<U+DB40><U+DD02>", "<U+DB40><U+DD03>", "<U+DB40><U+DD04>",
    "<U+DB40><U+DD05>", "<U+DB40><U+DD06>", "<U+DB40><U+DD07>", "<U+DB40><U+DD08>",
    "<U+DB40><U+DD09>", "<U+DB40><U+DD0A>", "<U+DB40><U+DD0B>", "<U+DB40><U+DD0C>",
    "<U+DB40><U+DD0D>", "<U+DB40><U+DD0E>", "<U+DB40><U+DD0F>", "<U+DB40><U+DD10>",
    "<U+DB40><U+DD11>", "<U+DB40><U+DD12>", "<U+DB40><U+DD13>", "<U+DB40><U+DD14>",
    "<U+DB40><U+DD15>", "<U+DB40><U+DD16>", "<U+DB40><U+DD17>", "<U+DB40><U+DD18>",
    "<U+DB40><U+DD19>", "<U+DB40><U+DD1A>", "<U+DB40><U+DD1B>", "<U+DB40><U+DD1C>",
    "<U+DB40><U+DD1D>", "<U+DB40><U+DD1E>", "<U+DB40><U+DD1F>", "<U+DB40><U+DD20>",
    "<U+DB40><U+DD21>", "<U+DB40><U+DD22>", "<U+DB40><U+DD23>", "<U+DB40><U+DD24>",
    "<U+DB40><U+DD25>", "<U+DB40><U+DD26>", "<U+DB40><U+DD27>", "<U+DB40><U+DD28>",
    "<U+DB40><U+DD29>", "<U+DB40><U+DD2A>", "<U+DB40><U+DD2B>", "<U+DB40><U+DD2C>",
    "<U+DB40><U+DD2D>", "<U+DB40><U+DD2E>", "<U+DB40><U+DD2F>", "<U+DB40><U+DD30>",
    "<U+DB40><U+DD31>", "<U+DB40><U+DD32>", "<U+DB40><U+DD33>", "<U+DB40><U+DD34>",
    "<U+DB40><U+DD35>", "<U+DB40><U+DD36>", "<U+DB40><U+DD37>", "<U+DB40><U+DD38>",
    "<U+DB40><U+DD39>", "<U+DB40><U+DD3A>", "<U+DB40><U+DD3B>", "<U+DB40><U+DD3C>",
    "<U+DB40><U+DD3D>", "<U+DB40><U+DD3E>", "<U+DB40><U+DD3F>", "<U+DB40><U+DD40>",
    "<U+DB40><U+DD41>", "<U+DB40><U+DD42>", "<U+DB40><U+DD43>", "<U+DB40><U+DD44>",
    "<U+DB40><U+DD45>", "<U+DB40><U+DD46>", "<U+DB40><U+DD47>", "<U+DB40><U+DD48>",
    "<U+DB40><U+DD49>", "<U+DB40><U+DD4A>", "<U+DB40><U+DD4B>", "<U+DB40><U+DD4C>",
    "<U+DB40><U+DD4D>", "<U+DB40><U+DD4E>", "<U+DB40><U+DD4F>", "<U+DB40><U+DD50>",
    "<U+DB40><U+DD51>", "<U+DB40><U+DD52>", "<U+DB40><U+DD53>", "<U+DB40><U+DD54>",
    "<U+DB40><U+DD55>", "<U+DB40><U+DD56>", "<U+DB40><U+DD57>", "<U+DB40><U+DD58>",
    "<U+DB40><U+DD59>", "<U+DB40><U+DD5A>", "<U+DB40><U+DD5B>", "<U+DB40><U+DD5C>",
    "<U+DB40><U+DD5D>", "<U+DB40><U+DD5E>", "<U+DB40><U+DD5F>", "<U+DB40><U+DD60>",
    "<U+DB40><U+DD61>", "<U+DB40><U+DD62>", "<U+DB40><U+DD63>", "<U+DB40><U+DD64>",
    "<U+DB40><U+DD65>", "<U+DB40><U+DD66>", "<U+DB40><U+DD67>", "<U+DB40><U+DD68>",
    "<U+DB40><U+DD69>", "<U+DB40><U+DD6A>", "<U+DB40><U+DD6B>", "<U+DB40><U+DD6C>",
    "<U+DB40><U+DD6D>", "<U+DB40><U+DD6E>", "<U+DB40><U+DD6F>", "<U+DB40><U+DD70>",
    "<U+DB40><U+DD71>", "<U+DB40><U+DD72>", "<U+DB40><U+DD73>", "<U+DB40><U+DD74>",
    "<U+DB40><U+DD75>", "<U+DB40><U+DD76>", "<U+DB40><U+DD77>", "<U+DB40><U+DD78>",
    "<U+DB40><U+DD79>", "<U+DB40><U+DD7A>", "<U+DB40><U+DD7B>", "<U+DB40><U+DD7C>",
    "<U+DB40><U+DD7D>", "<U+DB40><U+DD7E>", "<U+DB40><U+DD7F>", "<U+DB40><U+DD80>",
    "<U+DB40><U+DD81>", "<U+DB40><U+DD82>", "<U+DB40><U+DD83>", "<U+DB40><U+DD84>",
    "<U+DB40><U+DD85>", "<U+DB40><U+DD86>", "<U+DB40><U+DD87>", "<U+DB40><U+DD88>",
    "<U+DB40><U+DD89>", "<U+DB40><U+DD8A>", "<U+DB40><U+DD8B>", "<U+DB40><U+DD8C>",
    "<U+DB40><U+DD8D>", "<U+DB40><U+DD8E>", "<U+DB40><U+DD8F>", "<U+DB40><U+DD90>",
    "<U+DB40><U+DD91>", "<U+DB40><U+DD92>", "<U+DB40><U+DD93>", "<U+DB40><U+DD94>",
    "<U+DB40><U+DD95>", "<U+DB40><U+DD96>", "<U+DB40><U+DD97>", "<U+DB40><U+DD98>",
    "<U+DB40><U+DD99>", "<U+DB40><U+DD9A>", "<U+DB40><U+DD9B>", "<U+DB40><U+DD9C>",
    "<U+DB40><U+DD9D>", "<U+DB40><U+DD9E>", "<U+DB40><U+DD9F>", "<U+DB40><U+DDA0>",
    "<U+DB40><U+DDA1>", "<U+DB40><U+DDA2>", "<U+DB40><U+DDA3>", "<U+DB40><U+DDA4>",
    "<U+DB40><U+DDA5>", "<U+DB40><U+DDA6>", "<U+DB40><U+DDA7>", "<U+DB40><U+DDA8>",
    "<U+DB40><U+DDA9>", "<U+DB40><U+DDAA>", "<U+DB40><U+DDAB>", "<U+DB40><U+DDAC>",
    "<U+DB40><U+DDAD>", "<U+DB40><U+DDAE>", "<U+DB40><U+DDAF>", "<U+DB40><U+DDB0>",
    "<U+DB40><U+DDB1>", "<U+DB40><U+DDB2>", "<U+DB40><U+DDB3>", "<U+DB40><U+DDB4>",
    "<U+DB40><U+DDB5>", "<U+DB40><U+DDB6>", "<U+DB40><U+DDB7>", "<U+DB40><U+DDB8>",
    "<U+DB40><U+DDB9>", "<U+DB40><U+DDBA>", "<U+DB40><U+DDBB>", "<U+DB40><U+DDBC>",
    "<U+DB40><U+DDBD>", "<U+DB40><U+DDBE>", "<U+DB40><U+DDBF>", "<U+DB40><U+DDC0>",
    "<U+DB40><U+DDC1>", "<U+DB40><U+DDC2>", "<U+DB40><U+DDC3>", "<U+DB40><U+DDC4>",
    "<U+DB40><U+DDC5>", "<U+DB40><U+DDC6>", "<U+DB40><U+DDC7>", "<U+DB40><U+DDC8>",
    "<U+DB40><U+DDC9>", "<U+DB40><U+DDCA>", "<U+DB40><U+DDCB>", "<U+DB40><U+DDCC>",
    "<U+DB40><U+DDCD>", "<U+DB40><U+DDCE>", "<U+DB40><U+DDCF>", "<U+DB40><U+DDD0>",
    "<U+DB40><U+DDD1>", "<U+DB40><U+DDD2>", "<U+DB40><U+DDD3>", "<U+DB40><U+DDD4>",
    "<U+DB40><U+DDD5>", "<U+DB40><U+DDD6>", "<U+DB40><U+DDD7>", "<U+DB40><U+DDD8>",
    "<U+DB40><U+DDD9>", "<U+DB40><U+DDDA>", "<U+DB40><U+DDDB>", "<U+DB40><U+DDDC>",
    "<U+DB40><U+DDDD>", "<U+DB40><U+DDDE>", "<U+DB40><U+DDDF>", "<U+DB40><U+DDE0>",
    "<U+DB40><U+DDE1>", "<U+DB40><U+DDE2>", "<U+DB40><U+DDE3>", "<U+DB40><U+DDE4>",
    "<U+DB40><U+DDE5>", "<U+DB40><U+DDE6>", "<U+DB40><U+DDE7>", "<U+DB40><U+DDE8>",
    "<U+DB40><U+DDE9>", "<U+DB40><U+DDEA>", "<U+DB40><U+DDEB>", "<U+DB40><U+DDEC>",
    "<U+DB40><U+DDED>", "<U+DB40><U+DDEE>", "<U+DB40><U+DDEF>"
  }

\* the cased characters of Unicode that are not case-ignorable, in the
\* Basic Multilingual Plane
Cased ==
  {
    "A", "B", "C", "D", "E", "F",
    "G", "H", "I", "J", "K", "L",
    "M", "N", "O", "P", "Q", "R",
    "S", "T", "U", "V", "W", "X",
    "Y", "Z", "a", "b", "c", "d",
    "e", "f", "g", "h", "i", "j",
    "k", "l", "m", "n", "o", "p",
    "q", "r", "s", "t", "u", "v",
    "w", "x", "y", "z", "<U+00AA>", "<U+00B5>",
    "<U+00BA>", "<U+00C0>", "<U+00C1>", "<U+00C2>", "<U+00C3>", "<U+00C4>",
    "<U+00C5>", "<U+00C6>", "<U+00C7>", "<U+00C8>", "<U+00C9>", "<U+00CA>",
    "<U+00CB>", "<U+00CC>", "<U+00CD>", "<U+00CE>", "<U+00CF>", "<U+00D0>",
    "<U+00D1>", "<U+00D2>", "<U+00D3>", "<U+00D4>", "<U+00D5>", "<U+00D6>",
    "<U+00D8>", "<U+00D9>", "<U+00DA>", "<U+00DB>", "<U+00DC>", "<U+00DD>",
    "<U+00DE>", "<U+00DF>", "<U+00E0>", "<U+00E1>", "<U+00E2>", "<U+00E3>",
    "<U+00E4>", "<U+00E5>", "<U+00E6>", "<U+00E7>", "<U+00E8>", "<U+00E9>",
    "<U+00EA>", "<U+00EB>", "<U+00EC>", "<U+00ED>", "<U+00EE>", "<U+00EF>",
    "<U+00F0>", "<U+00F1>", "<U+00F2>", "<U+00F3>", "<U+00F4>", "<U+00F5>",
    "<U+00F6>", "<U+00F8>", "<U+00F9>", "<U+00FA>", "<U+00FB>", "<U+00FC>",
    "<U+00FD>", "<U+00FE>", "<U+00FF>", "<U+0100>", "<U+0101>", "<U+0102>",
    "<U+0103>", "<U+0104>", "<U+0105>", "<U+0106>", "<U+0107>", "<U+0108>",
    "<U+0109>", "<U+010A>", "<U+010B>", "<U+010C>", "<U+010D>", "<U+010E>",
    "<U+010F>", "<U+0110>", "<U+0111>", "<U+0112>", "<U+0113>", "<U+0114>",
    "<U+0115>", "<U+0116>", "<U+0117>", "<U+0118>", "<U+0119>", "<U+011A>",
    "<U+011B>", "<U+011C>", "<U+011D>", "<U+011E>", "<U+011F>", "<U+0120>",
    "<U+0121>", "<U+0122>", "<U+0123>", "<U+0124>", "<U+0125>", "<U+0126>",
    "<U+0127>", "<U+0128>", "<U+0129>", "<U+012A>", "<U+012B>", "<U+012C>",
    "<U+012D>", "<U+012E>", "<U+012F>", "<U+0130>", "<U+0131>", "<U+0132>",
    "<U+0133>", "<U+0134>", "<U+0135>", "<U+0136>", "<U+0137>", "<U+0138>",
    "<U+0139>", "<U+013A>", "<U+013B>", "<U+013C>", "<U+013D>", "<U+013E>",
    "<U+013F>", "<U+0140>", "<U+0141>", "<U+0142>", "<U+0143>", "<U+0144>",
    "<U+0145>", "<U+0146>", "<U+0147>", "<U+0148>", "<U+0149>", "<U+014A>",
    "<U+014B>", "<U+014C>", "<U+014D>", "<U+014E>", "<U+014F>", "<U+0150>",
    "<U+0151>", "<U+0152>", "<U+0153>", "<U+0154>", "<U+0155>", "<U+0156>",
    "<U+0157>", "<U+0158>", "<U+0159>", "<U+015A>", "<U+015B>", "<U+015C>",
    "<U+015D>", "<U+015E>", "<U+015F>", "<U+0160>", "<U+0161>", "<U+0162>",
    "<U+0163>", "<U+0164>", "<U+0165>", "<U+0166>", "<U+0167>", "<U+0168>",
    "<U+0169>", "<U+016A>", "<U+016B>", "<U+016C>", "<U+016D>", "<U+016E>",
    "<U+016F>", "<U+0170>", "<U+0171>", "<U+0172>", "<U+0173>", "<U+0174>",
    "<U+0175>", "<U+0176>", "<U+0177>", "<U+0178>", "<U+0179>", "<U+017A>",
    "<U+017B>", "<U+017C>", "<U+017D>", "<U+017E>", "<U+017F>", "<U+0180>",
    "<U+0181>", "<U+0182>", "<U+0183>", "<U+0184>", "<U+0185>", "<U+0186>",
    "<U+0187>", "<U+0188>", "<U+0189>", "<U+018A>", "<U+018B>", "<U+018C>",
    "<U+018D>", "<U+018E>", "<U+018F>", "<U+0190>", "<U+0191>", "<U+0192>",
    "<U+0193>", "<U+0194>", "<U+0195>", "<U+0196>", "<U+0197>", "<U+0198>",
    "<U+0199>", "<U+019A>", "<U+019B>", "<U+019C>", "<U+019D>", "<U+019E>",
    "<U+019F>", "<U+01A0>", "<U+01A1>", "<U+01A2>", "<U+01A3>", "<U+01A4>",
    "<U+01A5>", "<U+01A6>", "<U+01A7>", "<U+01A8>", "<U+01A9>", "<U+01AA>",
    "<U+01AB>", "<U+01AC>", "<U+01AD>", "<U+01AE>", "<U+01AF>", "<U+01B0>",
    "<U+01B1>", "<U+01B2>", "<U+01B3>", "<U+01B4>", "<U+01B5>", "<U+01B6>",
    "<U+01B7>", "<U+01B8>", "<U+01B9>", "<U+01BA>", "<U+01BC>", "<U+01BD>",
    "<U+01BE>", "<U+01BF>", "<U+01C4>", "<U+01C5>", "<U+01C6>", "<U+01C7>",
    "<U+01C8>", "<U+01C9>", "<U+01CA>", "<U+01CB>", "<U+01CC>", "<U+01CD>",
    "<U+01CE>", "<U+01CF>", "<U+01D0>", "<U+01D1>", "<U+01D2>", "<U+01D3>",
    "<U+01D4>", "<U+01D5>", "<U+01D6>", "<U+01D7>", "<U+01D8>", "<U+01D9>",
    "<U+01DA>", "<U+01DB>", "<U+01DC>", "<U+01DD>", "<U+01DE>", "<U+01DF>",
    "<U+01E0>", "<U+01E1>", "<U+01E2>", "<U+01E3>", "<U+01E4>", "<U+01E5>",
    "<U+01E6>", "<U+01E7>", "<U+01E8>", "<U+01E9>", "<U+01EA>", "<U+01EB>",
    "<U+01EC>", "<U+01ED>", "<U+01EE>", "<U+01EF>", "<U+01F0>", "<U+01F1>",
    "<U+01F2>", "<U+01F3>", "<U+01F4>", "<U+01F5>", "<U+01F6>", "<U+01F7>",
    "<U+01F8>", "<U+01F9>", "<U+01FA>", "<U+01FB>", "<U+01FC>", "<U+01FD>",
    "<U+01FE>", "<U+01FF>", "<U+0200>", "<U+0201>", "<U+0202>", "<U+0203>",
    "<U+0204>", "<U+0205>", "<U+0206>", "<U+0207>", "<U+0208>", "<U+0209>",
    "<U+020A>", "<U+020B>", "<U+020C>", "<U+020D>", "<U+020E>", "<U+020F>",
    "<U+0210>", "<U+0211>", "<U+0212>", "<U+0213>", "<U+0214>", "<U+0215>",
    "<U+0216>", "<U+0217>", "<U+0218>", "<U+0219>", "<U+021A>", "<U+021B>",
    "<U+021C>", "<U+021D>", "<U+021E>", "<U+021F>", "<U+0220>", "<U+0221>",
    "<U+0222>", "<U+0223>", "<U+0224>", "<U+0225>", "<U+0226>", "<U+0227>",
    "<U+0228>", "<U+0229>", "<U+022A>", "<U+022B>", "<U+022C>", "<U+022D>",
    "<U+022E>", "<U+022F>", "<U+0230>", "<U+0231>", "<U+0232>", "<U+0233>",
    "<U+0234>", "<U+0235>", "<U+0236>", "<U+0237>", "<U+0238>", "<U+0239>",
    "<U+023A>", "<U+023B>", "<U+023C>", "<U+023D>", "<U+023E>", "<U+023F>",
    "<U+0240>", "<U+0241>", "<U+0242>", "<U+0243>", "<U+0244>", "<U+0245>",
    "<U+0246>", "<U+0247>", "<U+0248>", "<U+0249>", "<U+024A>", "<U+024B>",
    "<U+024C>", "<U+024D>", "<U+024E>", "<U+024F>", "<U+0250>", "<U+0251>",
    "<U+0252>", "<U+0253>", "<U+0254>", "<U+0255>", "<U+0256>", "<U+0257>",
    "<U+0258>", "<U+0259>", "<U+025A>", "<U+025B>", "<U+025C>", "<U+025D>",
    "<U+025E>", "<U+025F>", "<U+0260>", "<U+0261>", "<U+0262>", "<U+0263>",
    "<U+0264>", "<U+0265>", "<U+0266>", "<U+0267>", "<U+0268>", "<U+0269>",
    "<U+026A>", "<U+026B>", "<U+026C>", "<U+026D>", "<U+026E>", "<U+026F>",
    "<U+0270>", "<U+0271>", "<U+0272>", "<U+0273>", "<U+0274>", "<U+0275>",
    "<U+0276>", "<U+0277>", "<U+0278>", "<U+0279>", "<U+027A>", "<U+027B>",
    "<U+027C>", "<U+027D>", "<U+027E>", "<U+027F>", "<U+0280>", "<U+0281>",
    "<U+0282>", "<U+0283>", "<U+0284>", "<U+0285>", "<U+0286>", "<U+0287>",
    "<U+0288>", "<U+0289>", "<U+028A>", "<U+028B>", "<U+028C>", "<U+028D>",
    "<U+028E>", "<U+028F>", "<U+0290>", "<U+0291>", "<U+0292>", "<U+0293>",
    "<U+0296>", "<U+0297>", "<U+0298>", "<U+0299>", "<U+029A>", "<U+029B>",
    "<U+029C>", "<U+029D>", "<U+029E>", "<U+029F>", "<U+02A0>", "<U+02A1>",
    "<U+02A2>", "<U+02A3>", "<U+02A4>", "<U+02A5>", "<U+02A6>", "<U+02A7>",
    "<U+02A8>", "<U+02A9>", "<U+02AA>", "<U+02AB>", "<U+02AC>", "<U+02AD>",
    "<U+02AE>", "<U+02AF>", "<U+0370>", "<U+0371>", "<U+0372>", "<U+0373>",
    "<U+0376>", "<U+0377>", "<U+037B>", "<U+037C>", "<U+037D>", "<U+037F>",
    "<U+0386>", "<U+0388>", "<U+0389>", "<U+038A>", "<U+038C>", "<U+038E>",
    "<U+038F>", "<U+0390>", "<U+0391>", "<U+0392>", "<U+0393>", "<U+0394>",
    "<U+0395>", "<U+0396>", "<U+0397>", "<U+0398>", "<U+0399>", "<U+039A>",
    "<U+039B>", "<U+039C>", "<U+039D>", "<U+039E>", "<U+039F>", "<U+03A0>",
    "<U+03A1>", "<U+03A3>", "<U+03A4>", "<U+03A5>", "<U+03A6>", "<U+03A7>",
    "<U+03A8>", "<U+03A9>", "<U+03AA>", "<U+03AB>", "<U+03AC>", "<U+03AD>",
    "<U+03AE>", "<U+03AF>", "<U+03B0>", "<U+03B1>", "<U+03B2>", "<U+03B3>",
    "<U+03B4>", "<U+03B5>", "<U+03B6>", "<U+03B7>", "<U+03B8>", "<U+03B9>",
    "<U+03BA>", "<U+03BB>", "<U+03BC>", "<U+03BD>", "<U+03BE>", "<U+03BF>",
    "<U+03C0>", "<U+03C1>", "<U+03C2>", "<U+03C3>", "<U+03C4>", "<U+03C5>",
    "<U+03C6>", "<U+03C7>", "<U+03C8>", "<U+03C9>", "<U+03CA>", "<U+03CB>",
    "<U+03CC>", "<U+03CD>", "<U+03CE>", "<U+03CF>", "<U+03D0>", "<U+03D1>",
    "<U+03D2>", "<U+03D3>", "<U+03D4>", "<U+03D5>", "<U+03D6>", "<U+03D7>",
    "<U+03D8>", "<U+03D9>", "<U+03DA>", "<U+03DB>", "<U+03DC>", "<U+03DD>",
    "<U+03DE>", "<U+03DF>", "<U+03E0>", "<U+03E1>", "<U+03E2>", "<U+03E3>",
    "<U+03E4>", "<U+03E5>", "<U+03E6>", "<U+03E7>", "<U+03E8>", "<U+03E9>",
    "<U+03EA>", "<U+03EB>", "<U+03EC>", "<U+03ED>", "<U+03EE>", "<U+03EF>",
    "<U+03F0>", "<U+03F1>", "<U+03F2>", "<U+03F3>", "<U+03F4>", "<U+03F5>",
    "<U+03F7>", "<U+03F8>", "<U+03F9>", "<U+03FA>", "<U+03FB>", "<U+03FC>",
    "<U+03FD>", "<U+03FE>", "<U+03FF>", "<U+0400>", "<U+0401>", "<U+0402>",
    "<U+0403>", "<U+0404>", "<U+0405>", "<U+0406>", "<U+0407>", "<U+0408>",
    "<U+0409>", "<U+040A>", "<U+040B>", "<U+040C>", "<U+040D>", "<U+040E>",
    "<U+040F>", "<U+0410>", "<U+0411>", "<U+0412>", "<U+0413>", "<U+0414>",
    "<U+0415>", "<U+0416>", "<U+0417>", "<U+0418>", "<U+0419>", "<U+041A>",
    "<U+041B>", "<U+041C>", "<U+041D>", "<U+041E>", "<U+041F>", "<U+0420>",
    "<U+0421>", "<U+0422>", "<U+0423>", "<U+0424>", "<U+0425>", "<U+0426>",
    "<U+0427>", "<U+0428>", "<U+0429>", "<U+042A>", "<U+042B>", "<U+042C>",
    "<U+042D>", "<U+042E>", "<U+042F>", "<U+0430>", "<U+0431>", "<U+0432>",
    "<U+0433>", "<U+0434>", "<U+0435>", "<U+0436>", "<U+0437>", "<U+0438>",
    "<U+0439>", "<U+043A>", "<U+043B>", "<U+043C>", "<U+043D>", "<U+043E>",
    "<U+043F>", "<U+0440>", "<U+0441>", "<U+0442>", "<U+0443>", "<U+0444>",
    "<U+0445>", "<U+0446>", "<U+0447>", "<U+0448>", "<U+0449>", "<U+044A>",
    "<U+044B>", "<U+044C>", "<U+044D>", "<U+044E>", "<U+044F>", "<U+0450>",
    "<U+0451>", "<U+0452>", "<U+0453>", "<U+0454>", "<U+0455>", "<U+0456>",
    "<U+0457>", "<U+0458>", "<U+0459>", "<U+045A>", "<U+045B>", "<U+045C>",
    "<U+045D>", "<U+045E>", "<U+045F>", "<U+0460>", "<U+0461>", "<U+0462>",
    "<U+0463>", "<U+0464>", "<U+0465>", "<U+0466>", "<U+0467>", "<U+0468>",
    "<U+0469>", "<U+046A>", "<U+046B>", "<U+046C>", "<U+046D>", "<U+046E>",
    "<U+046F>", "<U+0470>", "<U+0471>", "<U+0472>", "<U+0473>", "<U+0474>",
    "<U+0475>", "<U+0476>", "<U+0477>", "<U+0478>", "<U+0479>", "<U+047A>",
    "<U+047B>", "<U+047C>", "<U+047D>", "<U+047E>", "<U+047F>", "<U+0480>",
    "<U+0481>", "<U+048A>", "<U+048B>", "<U+048C>", "<U+048D>", "<U+048E>",
    "<U+048F>", "<U+0490>", "<U+0491>", "<U+0492>", "<U+0493>", "<U+0494>",
    "<U+0495>", "<U+0496>", "<U+0497>", "<U+0498>", "<U+0499>", "<U+049A>",
    "<U+049B>", "<U+049C>", "<U+049D>", "<U+049E>", "<U+049F>", "<U+04A0>",
    "<U+04A1>", "<U+04A2>", "<U+04A3>", "<U+04A4>", "<U+04A5>", "<U+04A6>",
    "<U+04A7>", "<U+04A8>", "<U+04A9>", "<U+04AA>", "<U+04AB>", "<U+04AC>",
    "<U+04AD>", "<U+04AE>", "<U+04AF>", "<U+04B0>", "<U+04B1>", "<U+04B2>",
    "<U+04B3>", "<U+04B4>", "<U+04B5>", "<U+04B6>", "<U+04B7>", "<U+04B8>",
    "<U+04B9>", "<U+04BA>", "<U+04BB>", "<U+04BC>", "<U+04BD>", "<U+04BE>",
    "<U+04BF>", "<U+04C0>", "<U+04C1>", "<U+04C2>", "<U+04C3>", "<U+04C4>",
    "<U+04C5>", "<U+04C6>", "<U+04C7>", "<U+04C8>", "<U+04C9>", "<U+04CA>",
    "<U+04CB>", "<U+04CC>", "<U+04CD>", "<U+04CE>", "<U+04CF>", "<U+04D0>",
    "<U+04D1>", "<U+04D2>", "<U+04D3>", "<U+04D4>", "<U+04D5>", "<U+04D6>",
    "<U+04D7>", "<U+04D8>", "<U+04D9>", "<U+04DA>", "<U+04DB>", "<U+04DC>",
    "<U+04DD>", "<U+04DE>", "<U+04DF>", "<U+04E0>", "<U+04E1>", "<U+04E2>",
    "<U+04E3>", "<U+04E4>", "<U+04E5>", "<U+04E6>", "<U+04E7>", "<U+04E8>",
    "<U+04E9>", "<U+04EA>", "<U+04EB>", "<U+04EC>", "<U+04ED>", "<U+04EE>",
    "<U+04EF>", "<U+04F0>", "<U+04F1>", "<U+04F2>", "<U+04F3>", "<U+04F4>",
    "<U+04F5>", "<U+04F6>", "<U+04F7>", "<U+04F8>", "<U+04F9>", "<U+04FA>",
    "<U+04FB>", "<U+04FC>", "<U+04FD>", "<U+04FE>", "<U+04FF>", "<U+0500>",
    "<U+0501>", "<U+0502>", "<U+0503>", "<U+0504>", "<U+0505>", "<U+0506>",
    "<U+0507>", "<U+0508>", "<U+0509>", "<U+050A>", "<U+050B>", "<U+050C>",
    "<U+050D>", "<U+050E>", "<U+050F>", "<U+0510>", "<U+0511>", "<U+0512>",
    "<U+0513>", "<U+0514>", "<U+0515>", "<U+0516>", "<U+0517>", "<U+0518>",
    "<U+0519>", "<U+051A>", "<U+051B>", "<U+051C>", "<U+051D>", "<U+051E>",
    "<U+051F>", "<U+0520>", "<U+0521>", "<U+0522>", "<U+0523>", "<U+0524>",
    "<U+0525>", "<U+0526>", "<U+0527>", "<U+0528>", "<U+0529>", "<U+052A>",
    "<U+052B>", "<U+052C>", "<U+052D>", "<U+052E>", "<U+052F>", "<U+0531>",
    "<U+0532>", "<U+0533>", "<U+0534>", "<U+0535>", "<U+0536>", "<U+0537>",
    "<U+0538>", "<U+0539>", "<U+053A>", "<U+053B>", "<U+053C>", "<U+053D>",
    "<U+053E>", "<U+053F>", "<U+0540>", "<U+0541>", "<U+0542>", "<U+0543>",
    "<U+0544>", "<U+0545>", "<U+0546>", "<U+0547>", "<U+0548>", "<U+0549>",
    "<U+054A>", "<U+054B>", "<U+054C>", "<U+054D>", "<U+054E>", "<U+054F>",
    "<U+0550>", "<U+0551>", "<U+0552>", "<U+0553>", "<U+0554>", "<U+0555>",
    "<U+0556>", "<U+0560>", "<U+0561>", "<U+0562>", "<U+0563>", "<U+0564>",
    "<U+0565>", "<U+0566>", "<U+0567>", "<U+0568>", "<U+0569>", "<U+056A>",
    "<U+056B>", "<U+056C>", "<U+056D>", "<U+056E>", "<U+056F>", "<U+0570>",
    "<U+0571>", "<U+0572>", "<U+0573>", "<U+0574>", "<U+0575>", "<U+0576>",
    "<U+0577>", "<U+0578>", "<U+0579>", "<U+057A>", "<U+057B>", "<U+057C>",
    "<U+057D>", "<U+057E>", "<U+057F>", "<U+0580>", "<U+0581>", "<U+0582>",
    "<U+0583>", "<U+0584>", "<U+0585>", "<U+0586>", "<U+0587>", "<U+0588>",
    "<U+10A0>", "<U+10A1>", "<U+10A2>", "<U+10A3>", "<U+10A4>", "<U+10A5>",
    "<U+10A6>", "<U+10A7>", "<U+10A8>", "<U+10A9>", "<U+10AA>", "<U+10AB>",
    "<U+10AC>", "<U+10AD>", "<U+10AE>", "<U+10AF>", "<U+10B0>", "<U+10B1>",
    "<U+10B2>", "<U+10B3>", "<U+10B4>", "<U+10B5>", "<U+10B6>", "<U+10B7>",
    "<U+10B8>", "<U+10B9>", "<U+10BA>", "<U+10BB>", "<U+10BC>", "<U+10BD>",
    "<U+10BE>", "<U+10BF>", "<U+10C0>", "<U+10C1>", "<U+10C2>", "<U+10C3>",
    "<U+10C4>", "<U+10C5>", "<U+10C7>", "<U+10CD>", "<U+10D0>", "<U+10D1>",
    "<U+10D2>", "<U+10D3>", "<U+10D4>", "<U+10D5>", "<U+10D6>", "<U+10D7>",
    "<U+10D8>", "<U+10D9>", "<U+10DA>", "<U+10DB>", "<U+10DC>", "<U+10DD>",
    "<U+10DE>", "<U+10DF>", "<U+10E0>", "<U+10E1>", "<U+10E2>", "<U+10E3>",
    "<U+10E4>", "<U+10E5>", "<U+10E6>", "<U+10E7>", "<U+10E8>", "<U+10E9>",
    "<U+10EA>", "<U+10EB>", "<U+10EC>", "<U+10ED>", "<U+10EE>", "<U+10EF>",
    "<U+10F0>", "<U+10F1>", "<U+10F2>", "<U+10F3>", "<U+10F4>", "<U+10F5>",
    "<U+10F6>", "<U+10F7>", "<U+10F8>", "<U+10F9>", "<U+10FA>", "<U+10FD>",
    "<U+10FE>", "<U+10FF>", "<U+13A0>", "<U+13A1>", "<U+13A2>", "<U+13A3>",
    "<U+13A4>", "<U+13A5>", "<U+13A6>", "<U+13A7>", "<U+13A8>", "<U+13A9>",
    "<U+13AA>", "<U+13AB>", "<U+13AC>", "<U+13AD>", "<U+13AE>", "<U+13AF>",
    "<U+13B0>", "<U+13B1>", "<U+13B2>", "<U+13B3>", "<U+13B4>", "<U+13B5>",
    "<U+13B6>", "<U+13B7>", "<U+13B8>", "<U+13B9>", "<U+13BA>", "<U+13BB>",
    "<U+13BC>", "<U+13BD>", "<U+13BE>", "<U+13BF>", "<U+13C0>", "<U+13C1>",
    "<U+13C2>", "<U+13C3>", "<U+13C4>", "<U+13C5>", "<U+13C6>", "<U+13C7>",
    "<U+13C8>", "<U+13C9>", "<U+13CA>", "<U+13CB>", "<U+13CC>", "<U+13CD>",
    "<U+13CE>", "<U+13CF>", "<U+13D0>", "<U+13D1>", "<U+13D2>", "<U+13D3>",
    "<U+13D4>", "<U+13D5>", "<U+13D6>", "<U+13D7>", "<U+13D8>", "<U+13D9>",
    "<U+13DA>", "<U+13DB>", "<U+13DC>", "<U+13DD>", "<U+13DE>", "<U+13DF>",
    "<U+13E0>", "<U+13E1>", "<U+13E2>", "<U+13E3>", "<U+13E4>", "<U+13E5>",
    "<U+13E6>", "<U+13E7>", "<U+13E8>", "<U+13E9>", "<U+13EA>", "<U+13EB>",
    "<U+13EC>", "<U+13ED>", "<U+13EE>", "<U+13EF>", "<U+13F0>", "<U+13F1>",
    "<U+13F2>", "<U+13F3>", "<U+13F4>", "<U+13F5>", "<U+13F8>", "<U+13F9>",
    "<U+13FA>", "<U+13FB>", "<U+13FC>", "<U+13FD>", "<U+1C80>", "<U+1C81>",
    "<U+1C82>", "<U+1C83>", "<U+1C84>", "<U+1C85>", "<U+1C86>", "<U+1C87>",
    "<U+1C88>", "<U+1C89>", "<U+1C8A>", "<U+1C90>", "<U+1C91>", "<U+1C92>",
    "<U+1C93>", "<U+1C94>", "<U+1C95>", "<U+1C96>", "<U+1C97>", "<U+1C98>",
    "<U+1C99>", "<U+1C9A>", "<U+1C9B>", "<U+1C9C>", "<U+1C9D>", "<U+1C9E>",
    "<U+1C9F>", "<U+1CA0>", "<U+1CA1>", "<U+1CA2>", "<U+1CA3>", "<U+1CA4>",
    "<U+1CA5>", "<U+1CA6>", "<U+1CA7>", "<U+1CA8>", "<U+1CA9>", "<U+1CAA>",
    "<U+1CAB>", "<U+1CAC>", "<U+1CAD>", "<U+1CAE>", "<U+1CAF>", "<U+1CB0>",
    "<U+1CB1>", "<U+1CB2>", "<U+1CB3>", "<U+1CB4>", "<U+1CB5>", "<U+1CB6>",
    "<U+1CB7>", "<U+1CB8>", "<U+1CB9>", "<U+1CBA>", "<U+1CBD>", "<U+1CBE>",
    "<U+1CBF>", "<U+1D00>", "<U+1D01>", "<U+1D02>", "<U+1D03>", "<U+1D04>",
    "<U+1D05>", "<U+1D06>", "<U+1D07>", "<U+1D08>", "<U+1D09>", "<U+1D0A>",
    "<U+1D0B>", "<U+1D0C>", "<U+1D0D>", "<U+1D0E>", "<U+1D0F>", "<U+1D10>",
    "<U+1D11>", "<U+1D12>", "<U+1D13>", "<U+1D14>", "<U+1D15>", "<U+1D16>",
    "<U+1D17>", "<U+1D18>", "<U+1D19>", "<U+1D1A>", "<U+1D1B>", "<U+1D1C>",
    "<U+1D1D>", "<U+1D1E>", "<U+1D1F>", "<U+1D20>", "<U+1D21>", "<U+1D22>",
    "<U+1D23>", "<U+1D24>", "<U+1D25>", "<U+1D26>", "<U+1D27>", "<U+1D28>",
    "<U+1D29>", "<U+1D2A>", "<U+1D2B>", "<U+1D6B>", "<U+1D6C>", "<U+1D6D>",
    "<U+1D6E>", "<U+1D6F>", "<U+1D70>", "<U+1D71>", "<U+1D72>", "<U+1D73>",
    "<U+1D74>", "<U+1D75>", "<U+1D76>", "<U+1D77>", "<U+1D79>", "<U+1D7A>",
    "<U+1D7B>", "<U+1D7C>", "<U+1D7D>", "<U+1D7E>", "<U+1D7F>", "<U+1D80>",
    "<U+1D81>", "<U+1D82>", "<U+1D83>", "<U+1D84>", "<U+1D85>", "<U+1D86>",
    "<U+1D87>", "<U+1D88>", "<U+1D89>", "<U+1D8A>", "<U+1D8B>", "<U+1D8C>",
    "<U+1D8D>", "<U+1D8E>", "<U+1D8F>", "<U+1D90>", "<U+1D91>", "<U+1D92>",
    "<U+1D93>", "<U+1D94>", "<U+1D95>", "<U+1D96>", "<U+1D97>", "<U+1D98>",
    "<U+1D99>", "<U+1D9A>", "<U+1E00>", "<U+1E01>", "<U+1E02>", "<U+1E03>",
    "<U+1E04>", "<U+1E05>", "<U+1E06>", "<U+1E07>", "<U+1E08>", "<U+1E09>",
    "<U+1E0A>", "<U+1E0B>", "<U+1E0C>", "<U+1E0D>", "<U+1E0E>", "<U+1E0F>",
    "<U+1E10>", "<U+1E11>", "<U+1E12>", "<U+1E13>", "<U+1E14>", "<U+1E15>",
    "<U+1E16>", "<U+1E17>", "<U+1E18>", "<U+1E19>", "<U+1E1A>", "<U+1E1B>",
    "<U+1E1C>", "<U+1E1D>", "<U+1E1E>", "<U+1E1F>", "<U+1E20>", "<U+1E21>",
    "<U+1E22>", "<U+1E23>", "<U+1E24>", "<U+1E25>", "<U+1E26>", "<U+1E27>",
    "<U+1E28>", "<U+1E29>", "<U+1E2A>", "<U+1E2B>", "<U+1E2C>", "<U+1E2D>",
    "<U+1E2E>", "<U+1E2F>", "<U+1E30>", "<U+1E31>", "<U+1E32>", "<U+1E33>",
    "<U+1E34>", "<U+1E35>", "<U+1E36>", "<U+1E37>", "<U+1E38>", "<U+1E39>",
    "<U+1E3A>", "<U+1E3B>", "<U+1E3C>", "<U+1E3D>", "<U+1E3E>", "<U+1E3F>",
    "<U+1E40>", "<U+1E41>", "<U+1E42>", "<U+1E43>", "<U+1E44>", "<U+1E45>",
    "<U+1E46>", "<U+1E47>", "<U+1E48>", "<U+1E49>", "<U+1E4A>", "<U+1E4B>",
    "<U+1E4C>", "<U+1E4D>", "<U+1E4E>", "<U+1E4F>", "<U+1E50>", "<U+1E51>",
    "<U+1E52>", "<U+1E53>", "<U+1E54>", "<U+1E55>", "<U+1E56>", "<U+1E57>",
    "<U+1E58>", "<U+1E59>", "<U+1E5A>", "<U+1E5B>", "<U+1E5C>", "<U+1E5D>",
    "<U+1E5E>", "<U+1E5F>", "<U+1E60>", "<U+1E61>", "<U+1E62>", "<U+1E63>",
    "<U+1E64>", "<U+1E65>", "<U+1E66>", "<U+1E67>", "<U+1E68>", "<U+1E69>",
    "<U+1E6A>", "<U+1E6B>", "<U+1E6C>", "<U+1E6D>", "<U+1E6E>", "<U+1E6F>",
    "<U+1E70>", "<U+1E71>", "<U+1E72>", "<U+1E73>", "<U+1E74>", "<U+1E75>",
    "<U+1E76>", "<U+1E77>", "<U+1E78>", "<U+1E79>", "<U+1E7A>", "<U+1E7B>",
    "<U+1E7C>", "<U+1E7D>", "<U+1E7E>", "<U+1E7F>", "<U+1E80>", "<U+1E81>",
    "<U+1E82>", "<U+1E83>", "<U+1E84>", "<U+1E85>", "<U+1E86>", "<U+1E87>",
    "<U+1E88>", "<U+1E89>", "<U+1E8A>", "<U+1E8B>", "<U+1E8C>", "<U+1E8D>",
    "<U+1E8E>", "<U+1E8F>", "<U+1E90>", "<U+1E91>", "<U+1E92>", "<U+1E93>",
    "<U+1E94>", "<U+1E95>", "<U+1E96>", "<U+1E97>", "<U+1E98>", "<U+1E99>",
    "<U+1E9A>", "<U+1E9B>", "<U+1E9C>", "<U+1E9D>", "<U+1E9E>", "<U+1E9F>",
    "<U+1EA0>", "<U+1EA1>", "<U+1EA2>", "<U+1EA3>", "<U+1EA4>", "<U+1EA5>",
    "<U+1EA6>", "<U+1EA7>", "<U+1EA8>", "<U+1EA9>", "<U+1EAA>", "<U+1EAB>",
    "<U+1EAC>", "<U+1EAD>", "<U+1EAE>", "<U+1EAF>", "<U+1EB0>", "<U+1EB1>",
    "<U+1EB2>", "<U+1EB3>", "<U+1EB4>", "<U+1EB5>", "<U+1EB6>", "<U+1EB7>",
    "<U+1EB8>", "<U+1EB9>", "<U+1EBA>", "<U+1EBB>", "<U+1EBC>", "<U+1EBD>",
    "<U+1EBE>", "<U+1EBF>", "<U+1EC0>", "<U+1EC1>", "<U+1EC2>", "<U+1EC3>",
    "<U+1EC4>", "<U+1EC5>", "<U+1EC6>", "<U+1EC7>", "<U+1EC8>", "<U+1EC9>",
    "<U+1ECA>", "<U+1ECB>", "<U+1ECC>", "<U+1ECD>", "<U+1ECE>", "<U+1ECF>",
    "<U+1ED0>", "<U+1ED1>", "<U+1ED2>", "<U+1ED3>", "<U+1ED4>", "<U+1ED5>",
    "<U+1ED6>", "<U+1ED7>", "<U+1ED8>", "<U+1ED9>", "<U+1EDA>", "<U+1EDB>",
    "<U+1EDC>", "<U+1EDD>", "<U+1EDE>", "<U+1EDF>", "<U+1EE0>", "<U+1EE1>",
    "<U+1EE2>", "<U+1EE3>", "<U+1EE4>", "<U+1EE5>", "<U+1EE6>", "<U+1EE7>",
    "<U+1EE8>", "<U+1EE9>", "<U+1EEA>", "<U+1EEB>", "<U+1EEC>", "<U+1EED>",
    "<U+1EEE>", "<U+1EEF>", "<U+1EF0>", "<U+1EF1>", "<U+1EF2>", "<U+1EF3>",
    "<U+1EF4>", "<U+1EF5>", "<U+1EF6>", "<U+1EF7>", "<U+1EF8>", "<U+1EF9>",
    "<U+1EFA>", "<U+1EFB>", "<U+1EFC>", "<U+1EFD>", "<U+1EFE>", "<U+1EFF>",
    "<U+1F00>", "<U+1F01>", "<U+1F02>", "<U+1F03>", "<U+1F04>", "<U+1F05>",
    "<U+1F06>", "<U+1F07>", "<U+1F08>", "<U+1F09>", "<U+1F0A>", "<U+1F0B>",
    "<U+1F0C>", "<U+1F0D>", "<U+1F0E>", "<U+1F0F>", "<U+1F10>", "<U+1F11>",
    "<U+1F12>", "<U+1F13>", "<U+1F14>", "<U+1F15>", "<U+1F18>", "<U+1F19>",
    "<U+1F1A>", "<U+1F1B>", "<U+1F1C>", "<U+1F1D>", "<U+1F20>", "<U+1F21>",
    "<U+1F22>", "<U+1F23>", "<U+1F24>", "<U+1F25>", "<U+1F26>", "<U+1F27>",
    "<U+1F28>", "<U+1F29>", "<U+1F2A>", "<U+1F2B>", "<U+1F2C>", "<U+1F2D>",
    "<U+1F2E>", "<U+1F2F>", "<U+1F30>", "<U+1F31>", "<U+1F32>", "<U+1F33>",
    "<U+1F34>", "<U+1F35>", "<U+1F36>", "<U+1F37>", "<U+1F38>", "<U+1F39>",
    "<U+1F3A>", "<U+1F3B>", "<U+1F3C>", "<U+1F3D>", "<U+1F3E>", "<U+1F3F>",
    "<U+1F40>", "<U+1F41>", "<U+1F42>", "<U+1F43>", "<U+1F44>", "<U+1F45>",
    "<U+1F48>", "<U+1F49>", "<U+1F4A>", "<U+1F4B>", "<U+1F4C>", "<U+1F4D>",
    "<U+1F50>", "<U+1F51>", "<U+1F52>", "<U+1F53>", "<U+1F54>", "<U+1F55>",
    "<U+1F56>", "<U+1F57>", "<U+1F59>", "<U+1F5B>", "<U+1F5D>", "<U+1F5F>",
    "<U+1F60>", "<U+1F61>", "<U+1F62>", "<U+1F63>", "<U+1F64>", "<U+1F65>",
    "<U+1F66>", "<U+1F67>", "<U+1F68>", "<U+1F69>", "<U+1F6A>", "<U+1F6B>",
    "<U+1F6C>", "<U+1F6D>", "<U+1F6E>", "<U+1F6F>", "<U+1F70>", "<U+1F71>",
    "<U+1F72>", "<U+1F73>", "<U+1F74>", "<U+1F75>", "<U+1F76>", "<U+1F77>",
    "<U+1F78>", "<U+1F79>", "<U+1F7A>", "<U+1F7B>", "<U+1F7C>", "<U+1F7D>",
    "<U+1F80>", "<U+1F81>", "<U+1F82>", "<U+1F83>", "<U+1F84>", "<U+1F85>",
    "<U+1F86>", "<U+1F87>", "<U+1F88>", "<U+1F89>", "<U+1F8A>", "<U+1F8B>",
    "<U+1F8C>", "<U+1F8D>", "<U+1F8E>", "<U+1F8F>", "<U+1F90>", "<U+1F91>",
    "<U+1F92>", "<U+1F93>", "<U+1F94>", "<U+1F95>", "<U+1F96>", "<U+1F97>",
    "<U+1F98>", "<U+1F99>", "<U+1F9A>", "<U+1F9B>", "<U+1F9C>", "<U+1F9D>",
    "<U+1F9E>", "<U+1F9F>", "<U+1FA0>", "<U+1FA1>", "<U+1FA2>", "<U+1FA3>",
    "<U+1FA4>", "<U+1FA5>", "<U+1FA6>", "<U+1FA7>", "<U+1FA8>", "<U+1FA9>",
    "<U+1FAA>", "<U+1FAB>", "<U+1FAC>", "<U+1FAD>", "<U+1FAE>", "<U+1FAF>",
    "<U+1FB0>", "<U+1FB1>", "<U+1FB2>", "<U+1FB3>", "<U+1FB4>", "<U+1FB6>",
    "<U+1FB7>", "<U+1FB8>", "<U+1FB9>", "<U+1FBA>", "<U+1FBB>", "<U+1FBC>",
    "<U+1FBE>", "<U+1FC2>", "<U+1FC3>", "<U+1FC4>", "<U+1FC6>", "<U+1FC7>",
    "<U+1FC8>", "<U+1FC9>", "<U+1FCA>", "<U+1FCB>", "<U+1FCC>", "<U+1FD0>",
    "<U+1FD1>", "<U+1FD2>", "<U+1FD3>", "<U+1FD6>", "<U+1FD7>", "<U+1FD8>",
    "<U+1FD9>", "<U+1FDA>", "<U+1FDB>", "<U+1FE0>", "<U+1FE1>", "<U+1FE2>",
    "<U+1FE3>", "<U+1FE4>", "<U+1FE5>", "<U+1FE6>", "<U+1FE7>", "<U+1FE8>",
    "<U+1FE9>", "<U+1FEA>", "<U+1FEB>", "<U+1FEC>", "<U+1FF2>", "<U+1FF3>",
    "<U+1FF4>", "<U+1FF6>", "<U+1FF7>", "<U+1FF8>", "<U+1FF9>", "<U+1FFA>",
    "<U+1FFB>", "<U+1FFC>", "<U+2102>", "<U+2107>", "<U+210A>", "<U+210B>",
    "<U+210C>", "<U+210D>", "<U+210E>", "<U+210F>", "<U+2110>", "<U+2111>",
    "<U+2112>", "<U+2113>", "<U+2115>", "<U+2119>", "<U+211A>", "<U+211B>",
    "<U+211C>", "<U+211D>", "<U+2124>", "<U+2126>", "<U+2128>", "<U+212A>",
    "<U+212B>", "<U+212C>", "<U+212D>", "<U+212F>", "<U+2130>", "<U+2131>",
    "<U+2132>", "<U+2133>", "<U+2134>", "<U+2139>", "<U+213C>", "<U+213D>",
    "<U+213E>", "<U+213F>", "<U+2145>", "<U+2146>", "<U+2147>", "<U+2148>",
    "<U+2149>", "<U+214E>", "<U+2160>", "<U+2161>", "<U+2162>", "<U+2163>",
    "<U+2164>", "<U+2165>", "<U+2166>", "<U+2167>", "<U+2168>", "<U+2169>",
    "<U+216A>", "<U+216B>", "<U+216C>", "<U+216D>", "<U+216E>", "<U+216F>",
    "<U+2170>", "<U+2171>", "<U+2172>", "<U+2173>", "<U+2174>", "<U+2175>",
    "<U+2176>", "<U+2177>", "<U+2178>", "<U+2179>", "<U+217A>", "<U+217B>",
    "<U+217C>", "<U+217D>", "<U+217E>", "<U+217F>", "<U+2183>", "<U+2184>",
    "<U+24B6>", "<U+24B7>", "<U+24B8>", "<U+24B9>", "<U+24BA>", "<U+24BB>",
    "<U+24BC>", "<U+24BD>", "<U+24BE>", "<U+24BF>", "<U+24C0>", "<U+24C1>",
    "<U+24C2>", "<U+24C3>", "<U+24C4>", "<U+24C5>", "<U+24C6>", "<U+24C7>",
    "<U+24C8>", "<U+24C9>", "<U+24CA>", "<U+24CB>", "<U+24CC>", "<U+24CD>",
    "<U+24CE>", "<U+24CF>", "<U+24D0>", "<U+24D1>", "<U+24D2>", "<U+24D3>",
    "<U+24D4>", "<U+24D5>", "<U+24D6>", "<U+24D7>", "<U+24D8>", "<U+24D9>",
    "<U+24DA>", "<U+24DB>", "<U+24DC>", "<U+24DD>", "<U+24DE>", "<U+24DF>",
    "<U+24E0>", "<U+24E1>", "<U+24E2>", "<U+24E3>", "<U+24E4>", "<U+24E5>",
    "<U+24E6>", "<U+24E7>", "<U+24E8>", "<U+24E9>", "<U+2C00>", "<U+2C01>",
    "<U+2C02>", "<U+2C03>", "<U+2C04>", "<U+2C05>", "<U+2C06>", "<U+2C07>",
    "<U+2C08>", "<U+2C09>", "<U+2C0A>", "<U+2C0B>", "<U+2C0C>", "<U+2C0D>",
    "<U+2C0E>", "<U+2C0F>", "<U+2C10>", "<U+2C11>", "<U+2C12>", "<U+2C13>",
    "<U+2C14>", "<U+2C15>", "<U+2C16>", "<U+2C17>", "<U+2C18>", "<U+2C19>",
    "<U+2C1A>", "<U+2C1B>", "<U+2C1C>", "<U+2C1D>", "<U+2C1E>", "<U+2C1F>",
    "<U+2C20>", "<U+2C21>", "<U+2C22>", "<U+2C23>", "<U+2C24>", "<U+2C25>",
    "<U+2C26>", "<U+2C27>", "<U+2C28>", "<U+2C29>", "<U+2C2A>", "<U+2C2B>",
    "<U+2C2C>", "<U+2C2D>", "<U+2C2E>", "<U+2C2F>", "<U+2C30>", "<U+2C31>",
    "<U+2C32>", "<U+2C33>", "<U+2C34>", "<U+2C35>", "<U+2C36>", "<U+2C37>",
    "<U+2C38>", "<U+2C39>", "<U+2C3A>", "<U+2C3B>", "<U+2C3C>", "<U+2C3D>",
    "<U+2C3E>", "<U+2C3F>", "<U+2C40>", "<U+2C41>", "<U+2C42>", "<U+2C43>",
    "<U+2C44>", "<U+2C45>", "<U+2C46>", "<U+2C47>", "<U+2C48>", "<U+2C49>",
    "<U+2C4A>", "<U+2C4B>", "<U+2C4C>", "<U+2C4D>", "<U+2C4E>", "<U+2C4F>",
    "<U+2C50>", "<U+2C51>", "<U+2C52>", "<U+2C53>", "<U+2C54>", "<U+2C55>",
    "<U+2C56>", "<U+2C57>", "<U+2C58>", "<U+2C59>", "<U+2C5A>", "<U+2C5B>",
    "<U+2C5C>", "<U+2C5D>", "<U+2C5E>", "<U+2C5F>", "<U+2C60>", "<U+2C61>",
    "<U+2C62>", "<U+2C63>", "<U+2C64>", "<U+2C65>", "<U+2C66>", "<U+2C67>",
    "<U+2C68>", "<U+2C69>", "<U+2C6A>", "<U+2C6B>", "<U+2C6C>", "<U+2C6D>",
    "<U+2C6E>", "<U+2C6F>", "<U+2C70>", "<U+2C71>", "<U+2C72>", "<U+2C73>",
    "<U+2C74>", "<U+2C75>", "<U+2C76>", "<U+2C77>", "<U+2C78>", "<U+2C79>",
    "<U+2C7A>", "<U+2C7B>", "<U+2C7E>", "<U+2C7F>", "<U+2C80>", "<U+2C81>",
    "<U+2C82>", "<U+2C83>", "<U+2C84>", "<U+2C85>", "<U+2C86>", "<U+2C87>",
    "<U+2C88>", "<U+2C89>", "<U+2C8A>", "<U+2C8B>", "<U+2C8C>", "<U+2C8D>",
    "<U+2C8E>", "<U+2C8F>", "<U+2C90>", "<U+2C91>", "<U+2C92>", "<U+2C93>",
    "<U+2C94>", "<U+2C95>", "<U+2C96>", "<U+2C97>", "<U+2C98>", "<U+2C99>",
    "<U+2C9A>", "<U+2C9B>", "<U+2C9C>", "<U+2C9D>", "<U+2C9E>", "<U+2C9F>",
    "<U+2CA0>", "<U+2CA1>", "<U+2CA2>", "<U+2CA3>", "<U+2CA4>", "<U+2CA5>",
    "<U+2CA6>", "<U+2CA7>", "<U+2CA8>", "<U+2CA9>", "<U+2CAA>", "<U+2CAB>",
    "<U+2CAC>", "<U+2CAD>", "<U+2CAE>", "<U+2CAF>", "<U+2CB0>", "<U+2CB1>",
    "<U+2CB2>", "<U+2CB3>", "<U+2CB4>", "<U+2CB5>", "<U+2CB6>", "<U+2CB7>",
    "<U+2CB8>", "<U+2CB9>", "<U+2CBA>", "<U+2CBB>", "<U+2CBC>", "<U+2CBD>",
    "<U+2CBE>", "<U+2CBF>", "<U+2CC0>", "<U+2CC1>", "<U+2CC2>", "<U+2CC3>",
    "<U+2CC4>", "<U+2CC5>", "<U+2CC6>", "<U+2CC7>", "<U+2CC8>", "<U+2CC9>",
    "<U+2CCA>", "<U+2CCB>", "<U+2CCC>", "<U+2CCD>", "<U+2CCE>", "<U+2CCF>",
    "<U+2CD0>", "<U+2CD1>", "<U+2CD2>", "<U+2CD3>", "<U+2CD4>", "<U+2CD5>",
    "<U+2CD6>", "<U+2CD7>", "<U+2CD8>", "<U+2CD9>", "<U+2CDA>", "<U+2CDB>",
    "<U+2CDC>", "<U+2CDD>", "<U+2CDE>", "<U+2CDF>", "<U+2CE0>", "<U+2CE1>",
    "<U+2CE2>", "<U+2CE3>", "<U+2CE4>", "<U+2CEB>", "<U+2CEC>", "<U+2CED>",
    "<U+2CEE>", "<U+2CF2>", "<U+2CF3>", "<U+2D00>", "<U+2D01>", "<U+2D02>",
    "<U+2D03>", "<U+2D04>", "<U+2D05>", "<U+2D06>", "<U+2D07>", "<U+2D08>",
    "<U+2D09>", "<U+2D0A>", "<U+2D0B>", "<U+2D0C>", "<U+2D0D>", "<U+2D0E>",
    "<U+2D0F>", "<U+2D10>", "<U+2D11>", "<U+2D12>", "<U+2D13>", "<U+2D14>",
    "<U+2D15>", "<U+2D16>", "<U+2D17>", "<U+2D18>", "<U+2D19>", "<U+2D1A>",
    "<U+2D1B>", "<U+2D1C>", "<U+2D1D>", "<U+2D1E>", "<U+2D1F>", "<U+2D20>",
    "<U+2D21>", "<U+2D22>", "<U+2D23>", "<U+2D24>", "<U+2D25>", "<U+2D27>",
    "<U+2D2D>", "<U+A640>", "<U+A641>", "<U+A642>", "<U+A643>", "<U+A644>",
    "<U+A645>", "<U+A646>", "<U+A647>", "<U+A648>", "<U+A649>", "<U+A64A>",
    "<U+A64B>", "<U+A64C>", "<U+A64D>", "<U+A64E>", "<U+A64F>", "<U+A650>",
    "<U+A651>", "<U+A652>", "<U+A653>", "<U+A654>", "<U+A655>", "<U+A656>",
    "<U+A657>", "<U+A658>", "<U+A659>", "<U+A65A>", "<U+A65B>", "<U+A65C>",
    "<U+A65D>", "<U+A65E>", "<U+A65F>", "<U+A660>", "<U+A661>", "<U+A662>",
    "<U+A663>", "<U+A664>", "<U+A665>", "<U+A666>", "<U+A667>", "<U+A668>",
    "<U+A669>", "<U+A66A>", "<U+A66B>", "<U+A66C>", "<U+A66D>", "<U+A680>",
    "<U+A681>", "<U+A682>", "<U+A683>", "<U+A684>", "<U+A685>", "<U+A686>",
    "<U+A687>", "<U+A688>", "<U+A689>", "<U+A68A>", "<U+A68B>", "<U+A68C>",
    "<U+A68D>", "<U+A68E>", "<U+A68F>", "<U+A690>", "<U+A691>", "<U+A692>",
    "<U+A693>", "<U+A694>", "<U+A695>", "<U+A696>", "<U+A697>", "<U+A698>",
    "<U+A699>", "<U+A69A>", "<U+A69B>", "<U+A722>", "<U+A723>", "<U+A724>",
    "<U+A725>", "<U+A726>", "<U+A727>", "<U+A728>", "<U+A729>", "<U+A72A>",
    "<U+A72B>", "<U+A72C>", "<U+A72D>", "<U+A72E>", "<U+A72F>", "<U+A730>",
    "<U+A731>", "<U+A732>", "<U+A733>", "<U+A734>", "<U+A735>", "<U+A736>",
    "<U+A737>", "<U+A738>", "<U+A739>", "<U+A73A>", "<U+A73B>", "<U+A73C>",
    "<U+A73D>", "<U+A73E>", "<U+A73F>", "<U+A740>", "<U+A741>", "<U+A742>",
    "<U+A743>", "<U+A744>", "<U+A745>", "<U+A746>", "<U+A747>", "<U+A748>",
    "<U+A749>", "<U+A74A>", "<U+A74B>", "<U+A74C>", "<U+A74D>", "<U+A74E>",
    "<U+A74F>", "<U+A750>", "<U+A751>", "<U+A752>", "<U+A753>", "<U+A754>",
    "<U+A755>", "<U+A756>", "<U+A757>", "<U+A758>", "<U+A759>", "<U+A75A>",
    "<U+A75B>", "<U+A75C>", "<U+A75D>", "<U+A75E>", "<U+A75F>", "<U+A760>",
    "<U+A761>", "<U+A762>", "<U+A763>", "<U+A764>", "<U+A765>", "<U+A766>",
    "<U+A767>", "<U+A768>", "<U+A769>", "<U+A76A>", "<U+A76B>", "<U+A76C>",
    "<U+A76D>", "<U+A76E>", "<U+A76F>", "<U+A771>", "<U+A772>", "<U+A773>",
    "<U+A774>", "<U+A775>", "<U+A776>", "<U+A777>", "<U+A778>", "<U+A779>",
    "<U+A77A>", "<U+A77B>", "<U+A77C>", "<U+A77D>", "<U+A77E>", "<U+A77F>",
    "<U+A780>", "<U+A781>", "<U+A782>", "<U+A783>", "<U+A784>", "<U+A785>",
    "<U+A786>", "<U+A787>", "<U+A78B>", "<U+A78C>", "<U+A78D>", "<U+A78E>",
    "<U+A790>", "<U+A791>", "<U+A792>", "<U+A793>", "<U+A794>", "<U+A795>",
    "<U+A796>", "<U+A797>", "<U+A798>", "<U+A799>", "<U+A79A>", "<U+A79B>",
    "<U+A79C>", "<U+A79D>", "<U+A79E>", "<U+A79F>", "<U+A7A0>", "<U+A7A1>",
    "<U+A7A2>", "<U+A7A3>", "<U+A7A4>", "<U+A7A5>", "<U+A7A6>", "<U+A7A7>",
    "<U+A7A8>", "<U+A7A9>", "<U+A7AA>", "<U+A7AB>", "<U+A7AC>", "<U+A7AD>",
    "<U+A7AE>", "<U+A7AF>", "<U+A7B0>", "<U+A7B1>", "<U+A7B2>", "<U+A7B3>",
    "<U+A7B4>", "<U+A7B5>", "<U+A7B6>", "<U+A7B7>", "<U+A7B8>", "<U+A7B9>",
    "<U+A7BA>", "<U+A7BB>", "<U+A7BC>", "<U+A7BD>", "<U+A7BE>", "<U+A7BF>",
    "<U+A7C0>", "<U+A7C1>", "<U+A7C2>", "<U+A7C3>", "<U+A7C4>", "<U+A7C5>",
    "<U+A7C6>", "<U+A7C7>", "<U+A7C8>", "<U+A7C9>", "<U+A7CA>", "<U+A7CB>",
    "<U+A7CC>", "<U+A7CD>", "<U+A7CE>", "<U+A7CF>", "<U+A7D0>", "<U+A7D1>",
    "<U+A7D2>", "<U+A7D3>", "<U+A7D4>", "<U+A7D5>", "<U+A7D6>", "<U+A7D7>",
    "<U+A7D8>", "<U+A7D9>", "<U+A7DA>", "<U+A7DB>", "<U+A7DC>", "<U+A7F5>",
    "<U+A7F6>", "<U+A7FA>", "<U+AB30>", "<U+AB31>", "<U+AB32>", "<U+AB33>",
    "<U+AB34>", "<U+AB35>", "<U+AB36>", "<U+AB37>", "<U+AB38>", "<U+AB39>",
    "<U+AB3A>", "<U+AB3B>", "<U+AB3C>", "<U+AB3D>", "<U+AB3E>", "<U+AB3F>",
    "<U+AB40>", "<U+AB41>", "<U+AB42>", "<U+AB43>", "<U+AB44>", "<U+AB45>",
    "<U+AB46>", "<U+AB47>", "<U+AB48>", "<U+AB49>", "<U+AB4A>", "<U+AB4B>",
    "<U+AB4C>", "<U+AB4D>", "<U+AB4E>", "<U+AB4F>", "<U+AB50>", "<U+AB51>",
    "<U+AB52>", "<U+AB53>", "<U+AB54>", "<U+AB55>", "<U+AB56>", "<U+AB57>",
    "<U+AB58>", "<U+AB59>", "<U+AB5A>", "<U+AB60>", "<U+AB61>", "<U+AB62>",
    "<U+AB63>", "<U+AB64>", "<U+AB65>", "<U+AB66>", "<U+AB67>", "<U+AB68>",
    "<U+AB70>", "<U+AB71>", "<U+AB72>", "<U+AB73>", "<U+AB74>", "<U+AB75>",
    "<U+AB76>", "<U+AB77>", "<U+AB78>", "<U+AB79>", "<U+AB7A>", "<U+AB7B>",
    "<U+AB7C>", "<U+AB7D>", "<U+AB7E>", "<U+AB7F>", "<U+AB80>", "<U+AB81>",
    "<U+AB82>", "<U+AB83>", "<U+AB84>", "<U+AB85>", "<U+AB86>", "<U+AB87>",
    "<U+AB88>", "<U+AB89>", "<U+AB8A>", "<U+AB8B>", "<U+AB8C>", "<U+AB8D>",
    "<U+AB8E>", "<U+AB8F>", "<U+AB90>", "<U+AB91>", "<U+AB92>", "<U+AB93>",
    "<U+AB94>", "<U+AB95>", "<U+AB96>", "<U+AB97>", "<U+AB98>", "<U+AB99>",
    "<U+AB9A>", "<U+AB9B>", "<U+AB9C>", "<U+AB9D>", "<U+AB9E>", "<U+AB9F>",
    "<U+ABA0>", "<U+ABA1>", "<U+ABA2>", "<U+ABA3>", "<U+ABA4>", "<U+ABA5>",
    "<U+ABA6>", "<U+ABA7>", "<U+ABA8>", "<U+ABA9>", "<U+ABAA>", "<U+ABAB>",
    "<U+ABAC>", "<U+ABAD>", "<U+ABAE>", "<U+ABAF>", "<U+ABB0>", "<U+ABB1>",
    "<U+ABB2>", "<U+ABB3>", "<U+ABB4>", "<U+ABB5>", "<U+ABB6>", "<U+ABB7>",
    "<U+ABB8>", "<U+ABB9>", "<U+ABBA>", "<U+ABBB>", "<U+ABBC>", "<U+ABBD>",
    "<U+ABBE>", "<U+ABBF>", "<U+FB00>", "<U+FB01>", "<U+FB02>", "<U+FB03>",
    "<U+FB04>", "<U+FB05>", "<U+FB06>", "<U+FB13>", "<U+FB14>", "<U+FB15>",
    "<U+FB16>", "<U+FB17>", "<U+FF21>", "<U+FF22>", "<U+FF23>", "<U+FF24>",
    "<U+FF25>", "<U+FF26>", "<U+FF27>", "<U+FF28>", "<U+FF29>", "<U+FF2A>",
    "<U+FF2B>", "<U+FF2C>", "<U+FF2D>", "<U+FF2E>", "<U+FF2F>", "<U+FF30>",
    "<U+FF31>", "<U+FF32>", "<U+FF33>", "<U+FF34>", "<U+FF35>", "<U+FF36>",
    "<U+FF37>", "<U+FF38>", "<U+FF39>", "<U+FF3A>", "<U+FF41>", "<U+FF42>",
    "<U+FF43>", "<U+FF44>", "<U+FF45>", "<U+FF46>", "<U+FF47>", "<U+FF48>",
    "<U+FF49>", "<U+FF4A>", "<U+FF4B>", "<U+FF4C>", "<U+FF4D>", "<U+FF4E>",
    "<U+FF4F>", "<U+FF50>", "<U+FF51>", "<U+FF52>", "<U+FF53>", "<U+FF54>",
    "<U+FF55>", "<U+FF56>", "<U+FF57>", "<U+FF58>", "<U+FF59>", "<U+FF5A>"
  }

\* the cased characters outside it, named the same way
CasedPairs ==
  {
    "<U+D801><U+DC00>", "<U+D801><U+DC01>", "<U+D801><U+DC02>", "<U+D801><U+DC03>",
    "<U+D801><U+DC04>", "<U+D801><U+DC05>", "<U+D801><U+DC06>", "<U+D801><U+DC07>",
    "<U+D801><U+DC08>", "<U+D801><U+DC09>", "<U+D801><U+DC0A>", "<U+D801><U+DC0B>",
    "<U+D801><U+DC0C>", "<U+D801><U+DC0D>", "<U+D801><U+DC0E>", "<U+D801><U+DC0F>",
    "<U+D801><U+DC10>", "<U+D801><U+DC11>", "<U+D801><U+DC12>", "<U+D801><U+DC13>",
    "<U+D801><U+DC14>", "<U+D801><U+DC15>", "<U+D801><U+DC16>", "<U+D801><U+DC17>",
    "<U+D801><U+DC18>", "<U+D801><U+DC19>", "<U+D801><U+DC1A>", "<U+D801><U+DC1B>",
    "<U+D801><U+DC1C>", "<U+D801><U+DC1D>", "<U+D801><U+DC1E>", "<U+D801><U+DC1F>",
    "<U+D801><U+DC20>", "<U+D801><U+DC21>", "<U+D801><U+DC22>", "<U+D801><U+DC23>",
    "<U+D801><U+DC24>", "<U+D801><U+DC25>", "<U+D801><U+DC26>", "<U+D801><U+DC27>",
    "<U+D801><U+DC28>", "<U+D801><U+DC29>", "<U+D801><U+DC2A>", "<U+D801><U+DC2B>",
    "<U+D801><U+DC2C>", "<U+D801><U+DC2D>", "<U+D801><U+DC2E>", "<U+D801><U+DC2F>",
    "<U+D801><U+DC30>", "<U+D801><U+DC31>", "<U+D801><U+DC32>", "<U+D801><U+DC33>",
    "<U+D801><U+DC34>", "<U+D801><U+DC35>", "<U+D801><U+DC36>", "<U+D801><U+DC37>",
    "<U+D801><U+DC38>", "<U+D801><U+DC39>", "<U+D801><U+DC3A>", "<U+D801><U+DC3B>",
    "<U+D801><U+DC3C>", "<U+D801><U+DC3D>", "<U+D801><U+DC3E>", "<U+D801><U+DC3F>",
    "<U+D801><U+DC40>", "<U+D801><U+DC41>", "<U+D801><U+DC42>", "<U+D801><U+DC43>",
    "<U+D801><U+DC44>", "<U+D801><U+DC45>", "<U+D801><U+DC46>", "<U+D801><U+DC47>",
    "<U+D801><U+DC48>", "<U+D801><U+DC49>", "<U+D801><U+DC4A>", "<U+D801><U+DC4B>",
    "<U+D801><U+DC4C>", "<U+D801><U+DC4D>", "<U+D801><U+DC4E>", "<U+D801><U+DC4F>",
    "<U+D801><U+DCB0>", "<U+D801><U+DCB1>", "<U+D801><U+DCB2>", "<U+D801><U+DCB3>",
    "<U+D801><U+DCB4>", "<U+D801><U+DCB5>", "<U+D801><U+DCB6>", "<U+D801><U+DCB7>",
    "<U+D801><U+DCB8>", "<U+D801><U+DCB9>", "<U+D801><U+DCBA>", "<U+D801><U+DCBB>",
    "<U+D801><U+DCBC>", "<U+D801><U+DCBD>", "<U+D801><U+DCBE>", "<U+D801><U+DCBF>",
    "<U+D801><U+DCC0>", "<U+D801><U+DCC1>", "<U+D801><U+DCC2>", "<U+D801><U+DCC3>",
    "<U+D801><U+DCC4>", "<U+D801><U+DCC5>", "<U+D801><U+DCC6>", "<U+D801><U+DCC7>",
    "<U+D801><U+DCC8>", "<U+D801><U+DCC9>", "<U+D801><U+DCCA>", "<U+D801><U+DCCB>",
    "<U+D801><U+DCCC>", "<U+D801><U+DCCD>", "<U+D801><U+DCCE>", "<U+D801><U+DCCF>",
    "<U+D801><U+DCD0>", "<U+D801><U+DCD1>", "<U+D801><U+DCD2>", "<U+D801><U+DCD3>",
    "<U+D801><U+DCD8>", "<U+D801><U+DCD9>", "<U+D801><U+DCDA>", "<U+D801><U+DCDB>",
    "<U+D801><U+DCDC>", "<U+D801><U+DCDD>", "<U+D801><U+DCDE>", "<U+D801><U+DCDF>",
    "<U+D801><U+DCE0>", "<U+D801><U+DCE1>", "<U+D801><U+DCE2>", "<U+D801><U+DCE3>",
    "<U+D801><U+DCE4>", "<U+D801><U+DCE5>", "<U+D801><U+DCE6>", "<U+D801><U+DCE7>",
    "<U+D801><U+DCE8>", "<U+D801><U+DCE9>", "<U+D801><U+DCEA>", "<U+D801><U+DCEB>",
    "<U+D801><U+DCEC>", "<U+D801><U+DCED>", "<U+D801><U+DCEE>", "<U+D801><U+DCEF>",
    "<U+D801><U+DCF0>", "<U+D801><U+DCF1>", "<U+D801><U+DCF2>", "<U+D801><U+DCF3>",
    "<U+D801><U+DCF4>", "<U+D801><U+DCF5>", "<U+D801><U+DCF6>", "<U+D801><U+DCF7>",
    "<U+D801><U+DCF8>", "<U+D801><U+DCF9>", "<U+D801><U+DCFA>", "<U+D801><U+DCFB>",
    "<U+D801><U+DD70>", "<U+D801><U+DD71>", "<U+D801><U+DD72>", "<U+D801><U+DD73>",
    "<U+D801><U+DD74>", "<U+D801><U+DD75>", "<U+D801><U+DD76>", "<U+D801><U+DD77>",
    "<U+D801><U+DD78>", "<U+D801><U+DD79>", "<U+D801><U+DD7A>", "<U+D801><U+DD7C>",
    "<U+D801><U+DD7D>", "<U+D801><U+DD7E>", "<U+D801><U+DD7F>", "<U+D801><U+DD80>",
    "<U+D801><U+DD81>", "<U+D801><U+DD82>", "<U+D801><U+DD83>", "<U+D801><U+DD84>",
    "<U+D801><U+DD85>", "<U+D801><U+DD86>", "<U+D801><U+DD87>", "<U+D801><U+DD88>",
    "<U+D801><U+DD89>", "<U+D801><U+DD8A>", "<U+D801><U+DD8C>", "<U+D801><U+DD8D>",
    "<U+D801><U+DD8E>", "<U+D801><U+DD8F>", "<U+D801><U+DD90>", "<U+D801><U+DD91>",
    "<U+D801><U+DD92>", "<U+D801><U+DD94>", "<U+D801><U+DD95>", "<U+D801><U+DD97>",
    "<U+D801><U+DD98>", "<U+D801><U+DD99>", "<U+D801><U+DD9A>", "<U+D801><U+DD9B>",
    "<U+D801><U+DD9C>", "<U+D801><U+DD9D>", "<U+D801><U+DD9E>", "<U+D801><U+DD9F>",
    "<U+D801><U+DDA0>", "<U+D801><U+DDA1>", "<U+D801><U+DDA3>", "<U+D801><U+DDA4>",
    "<U+D801><U+DDA5>", "<U+D801><U+DDA6>", "<U+D801><U+DDA7>", "<U+D801><U+DDA8>",
    "<U+D801><U+DDA9>", "<U+D801><U+DDAA>", "<U+D801><U+DDAB>", "<U+D801><U+DDAC>",
    "<U+D801><U+DDAD>", "<U+D801><U+DDAE>", "<U+D801><U+DDAF>", "<U+D801><U+DDB0>",
    "<U+D801><U+DDB1>", "<U+D801><U+DDB3>", "<U+D801><U+DDB4>", "<U+D801><U+DDB5>",
    "<U+D801><U+DDB6>", "<U+D801><U+DDB7>", "<U+D801><U+DDB8>", "<U+D801><U+DDB9>",
    "<U+D801><U+DDBB>", "<U+D801><U+DDBC>", "<U+D803><U+DC80>", "<U+D803><U+DC81>",
    "<U+D803><U+DC82>", "<U+D803><U+DC83>", "<U+D803><U+DC84>", "<U+D803><U+DC85>",
    "<U+D803><U+DC86>", "<U+D803><U+DC87>", "<U+D803><U+DC88>", "<U+D803><U+DC89>",
    "<U+D803><U+DC8A>", "<U+D803><U+DC8B>", "<U+D803><U+DC8C>", "<U+D803><U+DC8D>",
    "<U+D803><U+DC8E>", "<U+D803><U+DC8F>", "<U+D803><U+DC90>", "<U+D803><U+DC91>",
    "<U+D803><U+DC92>", "<U+D803><U+DC93>", "<U+D803><U+DC94>", "<U+D803><U+DC95>",
    "<U+D803><U+DC96>", "<U+D803><U+DC97>", "<U+D803><U+DC98>", "<U+D803><U+DC99>",
    "<U+D803><U+DC9A>", "<U+D803><U+DC9B>", "<U+D803><U+DC9C>", "<U+D803><U+DC9D>",
    "<U+D803><U+DC9E>", "<U+D803><U+DC9F>", "<U+D803><U+DCA0>", "<U+D803><U+DCA1>",
    "<U+D803><U+DCA2>", "<U+D803><U+DCA3>", "<U+D803><U+DCA4>", "<U+D803><U+DCA5>",
    "<U+D803><U+DCA6>", "<U+D803><U+DCA7>", "<U+D803><U+DCA8>", "<U+D803><U+DCA9>",
    "<U+D803><U+DCAA>", "<U+D803><U+DCAB>", "<U+D803><U+DCAC>", "<U+D803><U+DCAD>",
    "<U+D803><U+DCAE>", "<U+D803><U+DCAF>", "<U+D803><U+DCB0>", "<U+D803><U+DCB1>",
    "<U+D803><U+DCB2>", "<U+D803><U+DCC0>", "<U+D803><U+DCC1>", "<U+D803><U+DCC2>",
    "<U+D803><U+DCC3>", "<U+D803><U+DCC4>", "<U+D803><U+DCC5>", "<U+D803><U+DCC6>",
    "<U+D803><U+DCC7>", "<U+D803><U+DCC8>", "<U+D803><U+DCC9>", "<U+D803><U+DCCA>",
    "<U+D803><U+DCCB>", "<U+D803><U+DCCC>", "<U+D803><U+DCCD>", "<U+D803><U+DCCE>",
    "<U+D803><U+DCCF>", "<U+D803><U+DCD0>", "<U+D803><U+DCD1>", "<U+D803><U+DCD2>",
    "<U+D803><U+DCD3>", "<U+D803><U+DCD4>", "<U+D803><U+DCD5>", "<U+D803><U+DCD6>",
    "<U+D803><U+DCD7>", "<U+D803><U+DCD8>", "<U+D803><U+DCD9>", "<U+D803><U+DCDA>",
    "<U+D803><U+DCDB>", "<U+D803><U+DCDC>", "<U+D803><U+DCDD>", "<U+D803><U+DCDE>",
    "<U+D803><U+DCDF>", "<U+D803><U+DCE0>", "<U+D803><U+DCE1>", "<U+D803><U+DCE2>",
    "<U+D803><U+DCE3>", "<U+D803><U+DCE4>", "<U+D803><U+DCE5>", "<U+D803><U+DCE6>",
    "<U+D803><U+DCE7>", "<U+D803><U+DCE8>", "<U+D803><U+DCE9>", "<U+D803><U+DCEA>",
    "<U+D803><U+DCEB>", "<U+D803><U+DCEC>", "<U+D803><U+DCED>", "<U+D803><U+DCEE>",
    "<U+D803><U+DCEF>", "<U+D803><U+DCF0>", "<U+D803><U+DCF1>", "<U+D803><U+DCF2>",
    "<U+D803><U+DD50>", "<U+D803><U+DD51>", "<U+D803><U+DD52>", "<U+D803><U+DD53>",
    "<U+D803><U+DD54>", "<U+D803><U+DD55>", "<U+D803><U+DD56>", "<U+D803><U+DD57>",
    "<U+D803><U+DD58>", "<U+D803><U+DD59>", "<U+D803><U+DD5A>", "<U+D803><U+DD5B>",
    "<U+D803><U+DD5C>", "<U+D803><U+DD5D>", "<U+D803><U+DD5E>", "<U+D803><U+DD5F>",
    "<U+D803><U+DD60>", "<U+D803><U+DD61>", "<U+D803><U+DD62>", "<U+D803><U+DD63>",
    "<U+D803><U+DD64>", "<U+D803><U+DD65>", "<U+D803><U+DD70>", "<U+D803><U+DD71>",
    "<U+D803><U+DD72>", "<U+D803><U+DD73>", "<U+D803><U+DD74>", "<U+D803><U+DD75>",
    "<U+D803><U+DD76>", "<U+D803><U+DD77>", "<U+D803><U+DD78>", "<U+D803><U+DD79>",
    "<U+D803><U+DD7A>", "<U+D803><U+DD7B>", "<U+D803><U+DD7C>", "<U+D803><U+DD7D>",
    "<U+D803><U+DD7E>", "<U+D803><U+DD7F>", "<U+D803><U+DD80>", "<U+D803><U+DD81>",
    "<U+D803><U+DD82>", "<U+D803><U+DD83>", "<U+D803><U+DD84>", "<U+D803><U+DD85>",
    "<U+D806><U+DCA0>", "<U+D806><U+DCA1>", "<U+D806><U+DCA2>", "<U+D806><U+DCA3>",
    "<U+D806><U+DCA4>", "<U+D806><U+DCA5>", "<U+D806><U+DCA6>", "<U+D806><U+DCA7>",
    "<U+D806><U+DCA8>", "<U+D806><U+DCA9>", "<U+D806><U+DCAA>", "<U+D806><U+DCAB>",
    "<U+D806><U+DCAC>", "<U+D806><U+DCAD>", "<U+D806><U+DCAE>", "<U+D806><U+DCAF>",
    "<U+D806><U+DCB0>", "<U+D806><U+DCB1>", "<U+D806><U+DCB2>", "<U+D806><U+DCB3>",
    "<U+D806><U+DCB4>", "<U+D806><U+DCB5>", "<U+D806><U+DCB6>", "<U+D806><U+DCB7>",
    "<U+D806><U+DCB8>", "<U+D806><U+DCB9>", "<U+D806><U+DCBA>", "<U+D806><U+DCBB>",
    "<U+D806><U+DCBC>", "<U+D806><U+DCBD>", "<U+D806><U+DCBE>", "<U+D806><U+DCBF>",
    "<U+D806><U+DCC0>", "<U+D806><U+DCC1>", "<U+D806><U+DCC2>", "<U+D806><U+DCC3>",
    "<U+D806><U+DCC4>", "<U+D806><U+DCC5>", "<U+D806><U+DCC6>", "<U+D806><U+DCC7>",
    "<U+D806><U+DCC8>", "<U+D806><U+DCC9>", "<U+D806><U+DCCA>", "<U+D806><U+DCCB>",
    "<U+D806><U+DCCC>", "<U+D806><U+DCCD>", "<U+D806><U+DCCE>", "<U+D806><U+DCCF>",
    "<U+D806><U+DCD0>", "<U+D806><U+DCD1>", "<U+D806><U+DCD2>", "<U+D806><U+DCD3>",
    "<U+D806><U+DCD4>", "<U+D806><U+DCD5>", "<U+D806><U+DCD6>", "<U+D806><U+DCD7>",
    "<U+D806><U+DCD8>", "<U+D806><U+DCD9>", "<U+D806><U+DCDA>", "<U+D806><U+DCDB>",
    "<U+D806><U+DCDC>", "<U+D806><U+DCDD>", "<U+D806><U+DCDE>", "<U+D806><U+DCDF>",
    "<U+D81B><U+DE40>", "<U+D81B><U+DE41>", "<U+D81B><U+DE42>", "<U+D81B><U+DE43>",
    "<U+D81B><U+DE44>", "<U+D81B><U+DE45>", "<U+D81B><U+DE46>", "<U+D81B><U+DE47>",
    "<U+D81B><U+DE48>", "<U+D81B><U+DE49>", "<U+D81B><U+DE4A>", "<U+D81B><U+DE4B>",
    "<U+D81B><U+DE4C>", "<U+D81B><U+DE4D>", "<U+D81B><U+DE4E>", "<U+D81B><U+DE4F>",
    "<U+D81B><U+DE50>", "<U+D81B><U+DE51>", "<U+D81B><U+DE52>", "<U+D81B><U+DE53>",
    "<U+D81B><U+DE54>", "<U+D81B><U+DE55>", "<U+D81B><U+DE56>", "<U+D81B><U+DE57>",
    "<U+D81B><U+DE58>", "<U+D81B><U+DE59>", "<U+D81B><U+DE5A>", "<U+D81B><U+DE5B>",
    "<U+D81B><U+DE5C>", "<U+D81B><U+DE5D>", "<U+D81B><U+DE5E>", "<U+D81B><U+DE5F>",
    "<U+D81B><U+DE60>", "<U+D81B><U+DE61>", "<U+D81B><U+DE62>", "<U+D81B><U+DE63>",
    "<U+D81B><U+DE64>", "<U+D81B><U+DE65>", "<U+D81B><U+DE66>", "<U+D81B><U+DE67>",
    "<U+D81B><U+DE68>", "<U+D81B><U+DE69>", "<U+D81B><U+DE6A>", "<U+D81B><U+DE6B>",
    "<U+D81B><U+DE6C>", "<U+D81B><U+DE6D>", "<U+D81B><U+DE6E>", "<U+D81B><U+DE6F>",
    "<U+D81B><U+DE70>", "<U+D81B><U+DE71>", "<U+D81B><U+DE72>", "<U+D81B><U+DE73>",
    "<U+D81B><U+DE74>", "<U+D81B><U+DE75>", "<U+D81B><U+DE76>", "<U+D81B><U+DE77>",
    "<U+D81B><U+DE78>", "<U+D81B><U+DE79>", "<U+D81B><U+DE7A>", "<U+D81B><U+DE7B>",
    "<U+D81B><U+DE7C>", "<U+D81B><U+DE7D>", "<U+D81B><U+DE7E>", "<U+D81B><U+DE7F>",
    "<U+D81B><U+DEA0>", "<U+D81B><U+DEA1>", "<U+D81B><U+DEA2>", "<U+D81B><U+DEA3>",
    "<U+D81B><U+DEA4>", "<U+D81B><U+DEA5>", "<U+D81B><U+DEA6>", "<U+D81B><U+DEA7>",
    "<U+D81B><U+DEA8>", "<U+D81B><U+DEA9>", "<U+D81B><U+DEAA>", "<U+D81B><U+DEAB>",
    "<U+D81B><U+DEAC>", "<U+D81B><U+DEAD>", "<U+D81B><U+DEAE>", "<U+D81B><U+DEAF>",
    "<U+D81B><U+DEB0>", "<U+D81B><U+DEB1>", "<U+D81B><U+DEB2>", "<U+D81B><U+DEB3>",
    "<U+D81B><U+DEB4>", "<U+D81B><U+DEB5>", "<U+D81B><U+DEB6>", "<U+D81B><U+DEB7>",
    "<U+D81B><U+DEB8>", "<U+D81B><U+DEBB>", "<U+D81B><U+DEBC>", "<U+D81B><U+DEBD>",
    "<U+D81B><U+DEBE>", "<U+D81B><U+DEBF>", "<U+D81B><U+DEC0>", "<U+D81B><U+DEC1>",
    "<U+D81B><U+DEC2>", "<U+D81B><U+DEC3>", "<U+D81B><U+DEC4>", "<U+D81B><U+DEC5>",
    "<U+D81B><U+DEC6>", "<U+D81B><U+DEC7>", "<U+D81B><U+DEC8>", "<U+D81B><U+DEC9>",
    "<U+D81B><U+DECA>", "<U+D81B><U+DECB>", "<U+D81B><U+DECC>", "<U+D81B><U+DECD>",
    "<U+D81B><U+DECE>", "<U+D81B><U+DECF>", "<U+D81B><U+DED0>", "<U+D81B><U+DED1>",
    "<U+D81B><U+DED2>", "<U+D81B><U+DED3>", "<U+D835><U+DC00>", "<U+D835><U+DC01>",
    "<U+D835><U+DC02>", "<U+D835><U+DC03>", "<U+D835><U+DC04>", "<U+D835><U+DC05>",
    "<U+D835><U+DC06>", "<U+D835><U+DC07>", "<U+D835><U+DC08>", "<U+D835><U+DC09>",
    "<U+D835><U+DC0A>", "<U+D835><U+DC0B>", "<U+D835><U+DC0C>", "<U+D835><U+DC0D>",
    "<U+D835><U+DC0E>", "<U+D835><U+DC0F>", "<U+D835><U+DC10>", "<U+D835><U+DC11>",
    "<U+D835><U+DC12>", "<U+D835><U+DC13>", "<U+D835><U+DC14>", "<U+D835><U+DC15>",
    "<U+D835><U+DC16>", "<U+D835><U+DC17>", "<U+D835><U+DC18>", "<U+D835><U+DC19>",
    "<U+D835><U+DC1A>", "<U+D835><U+DC1B>", "<U+D835><U+DC1C>", "<U+D835><U+DC1D>",
    "<U+D835><U+DC1E>", "<U+D835><U+DC1F>", "<U+D835><U+DC20>", "<U+D835><U+DC21>",
    "<U+D835><U+DC22>", "<U+D835><U+DC23>", "<U+D835><U+DC24>", "<U+D835><U+DC25>",
    "<U+D835><U+DC26>", "<U+D835><U+DC27>", "<U+D835><U+DC28>", "<U+D835><U+DC29>",
    "<U+D835><U+DC2A>", "<U+D835><U+DC2B>", "<U+D835><U+DC2C>", "<U+D835><U+DC2D>",
    "<U+D835><U+DC2E>", "<U+D835><U+DC2F>", "<U+D835><U+DC30>", "<U+D835><U+DC31>",
    "<U+D835><U+DC32>", "<U+D835><U+DC33>", "<U+D835><U+DC34>", "<U+D835><U+DC35>",
    "<U+D835><U+DC36>", "<U+D835><U+DC37>", "<U+D835><U+DC38>", "<U+D835><U+DC39>",
    "<U+D835><U+DC3A>", "<U+D835><U+DC3B>", "<U+D835><U+DC3C>", "<U+D835><U+DC3D>",
    "<U+D835><U+DC3E>", "<U+D835><U+DC3F>", "<U+D835><U+DC40>", "<U+D835><U+DC41>",
    "<U+D835><U+DC42>", "<U+D835><U+DC43>", "<U+D835><U+DC44>", "<U+D835><U+DC45>",
    "<U+D835><U+DC46>", "<U+D835><U+DC47>", "<U+D835><U+DC48>", "<U+D835><U+DC49>",
    "<U+D835><U+DC4A>", "<U+D835><U+DC4B>", "<U+D835><U+DC4C>", "<U+D835><U+DC4D>",
    "<U+D835><U+DC4E>", "<U+D835><U+DC4F>", "<U+D835><U+DC50>", "<U+D835><U+DC51>",
    "<U+D835><U+DC52>", "<U+D835><U+DC53>", "<U+D835><U+DC54>", "<U+D835><U+DC56>",
    "<U+D835><U+DC57>", "<U+D835><U+DC58>", "<U+D835><U+DC59>", "<U+D835><U+DC5A>",
    "<U+D835><U+DC5B>", "<U+D835><U+DC5C>", "<U+D835><U+DC5D>", "<U+D835><U+DC5E>",
    "<U+D835><U+DC5F>", "<U+D835><U+DC60>", "<U+D835><U+DC61>", "<U+D835><U+DC62>",
    "<U+D835><U+DC63>", "<U+D835><U+DC64>", "<U+D835><U+DC65>", "<U+D835><U+DC66>",
    "<U+D835><U+DC67>", "<U+D835><U+DC68>", "<U+D835><U+DC69>", "<U+D835><U+DC6A>",
    "<U+D835><U+DC6B>", "<U+D835><U+DC6C>", "<U+D835><U+DC6D>", "<U+D835><U+DC6E>",
    "<U+D835><U+DC6F>", "<U+D835><U+DC70>", "<U+D835><U+DC71>", "<U+D835><U+DC72>",
    "<U+D835><U+DC73>", "<U+D835><U+DC74>", "<U+D835><U+DC75>", "<U+D835><U+DC76>",
    "<U+D835><U+DC77>", "<U+D835><U+DC78>", "<U+D835><U+DC79>", "<U+D835><U+DC7A>",
    "<U+D835><U+DC7B>", "<U+D835><U+DC7C>", "<U+D835><U+DC7D>", "<U+D835><U+DC7E>",
    "<U+D835><U+DC7F>", "<U+D835><U+DC80>", "<U+D835><U+DC81>", "<U+D835><U+DC82>",
    "<U+D835><U+DC83>", "<U+D835><U+DC84>", "<U+D835><U+DC85>", "<U+D835><U+DC86>",
    "<U+D835><U+DC87>", "<U+D835><U+DC88>", "<U+D835><U+DC89>", "<U+D835><U+DC8A>",
    "<U+D835><U+DC8B>", "<U+D835><U+DC8C>", "<U+D835><U+DC8D>", "<U+D835><U+DC8E>",
    "<U+D835><U+DC8F>", "<U+D835><U+DC90>", "<U+D835><U+DC91>", "<U+D835><U+DC92>",
    "<U+D835><U+DC93>", "<U+D835><U+DC94>", "<U+D835><U+DC95>", "<U+D835><U+DC96>",
    "<U+D835><U+DC97>", "<U+D835><U+DC98>", "<U+D835><U+DC99>", "<U+D835><U+DC9A>",
    "<U+D835><U+DC9B>", "<U+D835><U+DC9C>", "<U+D835><U+DC9E>", "<U+D835><U+DC9F>",
    "<U+D835><U+DCA2>", "<U+D835><U+DCA5>", "<U+D835><U+DCA6>", "<U+D835><U+DCA9>",
    "<U+D835><U+DCAA>", "<U+D835><U+DCAB>", "<U+D835><U+DCAC>", "<U+D835><U+DCAE>",
    "<U+D835><U+DCAF>", "<U+D835><U+DCB0>", "<U+D835><U+DCB1>", "<U+D835><U+DCB2>",
    "<U+D835><U+DCB3>", "<U+D835><U+DCB4>", "<U+D835><U+DCB5>", "<U+D835><U+DCB6>",
    "<U+D835><U+DCB7>", "<U+D835><U+DCB8>", "<U+D835><U+DCB9>", "<U+D835><U+DCBB>",
    "<U+D835><U+DCBD>", "<U+D835><U+DCBE>", "<U+D835><U+DCBF>", "<U+D835><U+DCC0>",
    "<U+D835><U+DCC1>", "<U+D835><U+DCC2>", "<U+D835><U+DCC3>", "<U+D835><U+DCC5>",
    "<U+D835><U+DCC6>", "<U+D835><U+DCC7>", "<U+D835><U+DCC8>", "<U+D835><U+DCC9>",
    "<U+D835><U+DCCA>", "<U+D835><U+DCCB>", "<U+D835><U+DCCC>", "<U+D835><U+DCCD>",
    "<U+D835><U+DCCE>", "<U+D835><U+DCCF>", "<U+D835><U+DCD0>", "<U+D835><U+DCD1>",
    "<U+D835><U+DCD2>", "<U+D835><U+DCD3>", "<U+D835><U+DCD4>", "<U+D835><U+DCD5>",
    "<U+D835><U+DCD6>", "<U+D835><U+DCD7>", "<U+D835><U+DCD8>", "<U+D835><U+DCD9>",
    "<U+D835><U+DCDA>", "<U+D835><U+DCDB>", "<U+D835><U+DCDC>", "<U+D835><U+DCDD>",
    "<U+D835><U+DCDE>", "<U+D835><U+DCDF>", "<U+D835><U+DCE0>", "<U+D835><U+DCE1>",
    "<U+D835><U+DCE2>", "<U+D835><U+DCE3>", "<U+D835><U+DCE4>", "<U+D835><U+DCE5>",
    "<U+D835><U+DCE6>", "<U+D835><U+DCE7>", "<U+D835><U+DCE8>", "<U+D835><U+DCE9>",
    "<U+D835><U+DCEA>", "<U+D835><U+DCEB>", "<U+D835><U+DCEC>", "<U+D835><U+DCED>",
    "<U+D835><U+DCEE>", "<U+D835><U+DCEF>", "<U+D835><U+DCF0>", "<U+D835><U+DCF1>",
    "<U+D835><U+DCF2>", "<U+D835><U+DCF3>", "<U+D835><U+DCF4>", "<U+D835><U+DCF5>",
    "<U+D835><U+DCF6>", "<U+D835><U+DCF7>", "<U+D835><U+DCF8>", "<U+D835><U+DCF9>",
    "<U+D835><U+DCFA>", "<U+D835><U+DCFB>", "<U+D835><U+DCFC>", "<U+D835><U+DCFD>",
    "<U+D835><U+DCFE>", "<U+D835><U+DCFF>", "<U+D835><U+DD00>", "<U+D835><U+DD01>",
    "<U+D835><U+DD02>", "<U+D835><U+DD03>", "<U+D835><U+DD04>", "<U+D835><U+DD05>",
    "<U+D835><U+DD07>", "<U+D835><U+DD08>", "<U+D835><U+DD09>", "<U+D835><U+DD0A>",
    "<U+D835><U+DD0D>", "<U+D835><U+DD0E>", "<U+D835><U+DD0F>", "<U+D835><U+DD10>",
    "<U+D835><U+DD11>", "<U+D835><U+DD12>", "<U+D835><U+DD13>", "<U+D835><U+DD14>",
    "<U+D835><U+DD16>", "<U+D835><U+DD17>", "<U+D835><U+DD18>", "<U+D835><U+DD19>",
    "<U+D835><U+DD1A>", "<U+D835><U+DD1B>", "<U+D835><U+DD1C>", "<U+D835><U+DD1E>",
    "<U+D835><U+DD1F>", "<U+D835><U+DD20>", "<U+D835><U+DD21>", "<U+D835><U+DD22>",
    "<U+D835><U+DD23>", "<U+D835><U+DD24>", "<U+D835><U+DD25>", "<U+D835><U+DD26>",
    "<U+D835><U+DD27>", "<U+D835><U+DD28>", "<U+D835><U+DD29>", "<U+D835><U+DD2A>",
    "<U+D835><U+DD2B>", "<U+D835><U+DD2C>", "<U+D835><U+DD2D>", "<U+D835><U+DD2E>",
    "<U+D835><U+DD2F>", "<U+D835><U+DD30>", "<U+D835><U+DD31>", "<U+D835><U+DD32>",
    "<U+D835><U+DD33>", "<U+D835><U+DD34>", "<U+D835><U+DD35>", "<U+D835><U+DD36>",
    "<U+D835><U+DD37>", "<U+D835><U+DD38>", "<U+D835><U+DD39>", "<U+D835><U+DD3B>",
    "<U+D835><U+DD3C>", "<U+D835><U+DD3D>", "<U+D835><U+DD3E>", "<U+D835><U+DD40>",
    "<U+D835><U+DD41>", "<U+D835><U+DD42>", "<U+D835><U+DD43>", "<U+D835><U+DD44>",
    "<U+D835><U+DD46>", "<U+D835><U+DD4A>", "<U+D835><U+DD4B>", "<U+D835><U+DD4C>",
    "<U+D835><U+DD4D>", "<U+D835><U+DD4E>", "<U+D835><U+DD4F>", "<U+D835><U+DD50>",
    "<U+D835><U+DD52>", "<U+D835><U+DD53>", "<U+D835><U+DD54>", "<U+D835><U+DD55>",
    "<U+D835><U+DD56>", "<U+D835><U+DD57>", "<U+D835><U+DD58>", "<U+D835><U+DD59>",
    "<U+D835><U+DD5A>", "<U+D835><U+DD5B>", "<U+D835><U+DD5C>", "<U+D835><U+DD5D>",
    "<U+D835><U+DD5E>", "<U+D835><U+DD5F>", "<U+D835><U+DD60>", "<U+D835><U+DD61>",
    "<U+D835><U+DD62>", "<U+D835><U+DD63>", "<U+D835><U+DD64>", "<U+D835><U+DD65>",
    "<U+D835><U+DD66>", "<U+D835><U+DD67>", "<U+D835><U+DD68>", "<U+D835><U+DD69>",
    "<U+D835><U+DD6A>", "<U+D835><U+DD6B>", "<U+D835><U+DD6C>", "<U+D835><U+DD6D>",
    "<U+D835><U+DD6E>", "<U+D835><U+DD6F>", "<U+D835><U+DD70>", "<U+D835><U+DD71>",
    "<U+D835><U+DD72>", "<U+D835><U+DD73>", "<U+D835><U+DD74>", "<U+D835><U+DD75>",
    "<U+D835><U+DD76>", "<U+D835><U+DD77>", "<U+D835><U+DD78>", "<U+D835><U+DD79>",
    "<U+D835><U+DD7A>", "<U+D835><U+DD7B>", "<U+D835><U+DD7C>", "<U+D835><U+DD7D>",
    "<U+D835><U+DD7E>", "<U+D835><U+DD7F>", "<U+D835><U+DD80>", "<U+D835><U+DD81>",
    "<U+D835><U+DD82>", "<U+D835><U+DD83>", "<U+D835><U+DD84>", "<U+D835><U+DD85>",
    "<U+D835><U+DD86>", "<U+D835><U+DD87>", "<U+D835><U+DD88>", "<U+D835><U+DD89>",
    "<U+D835><U+DD8A>", "<U+D835><U+DD8B>", "<U+D835><U+DD8C>", "<U+D835><U+DD8D>",
    "<U+D835><U+DD8E>", "<U+D835><U+DD8F>", "<U+D835><U+DD90>", "<U+D835><U+DD91>",
    "<U+D835><U+DD92>", "<U+D835><U+DD93>", "<U+D835><U+DD94>", "<U+D835><U+DD95>",
    "<U+D835><U+DD96>", "<U+D835><U+DD97>", "<U+D835><U+DD98>", "<U+D835><U+DD99>",
    "<U+D835><U+DD9A>", "<U+D835><U+DD9B>", "<U+D835><U+DD9C>", "<U+D835><U+DD9D>",
    "<U+D835><U+DD9E>", "<U+D835><U+DD9F>", "<U+D835><U+DDA0>", "<U+D835><U+DDA1>",
    "<U+D835><U+DDA2>", "<U+D835><U+DDA3>", "<U+D835><U+DDA4>", "<U+D835><U+DDA5>",
    "<U+D835><U+DDA6>", "<U+D835><U+DDA7>", "<U+D835><U+DDA8>", "<U+D835><U+DDA9>",
    "<U+D835><U+DDAA>", "<U+D835><U+DDAB>", "<U+D835><U+DDAC>", "<U+D835><U+DDAD>",
    "<U+D835><U+DDAE>", "<U+D835><U+DDAF>", "<U+D835><U+DDB0>", "<U+D835><U+DDB1>",
    "<U+D835><U+DDB2>", "<U+D835><U+DDB3>", "<U+D835><U+DDB4>", "<U+D835><U+DDB5>",
    "<U+D835><U+DDB6>", "<U+D835><U+DDB7>", "<U+D835><U+DDB8>", "<U+D835><U+DDB9>",
    "<U+D835><U+DDBA>", "<U+D835><U+DDBB>", "<U+D835><U+DDBC>", "<U+D835><U+DDBD>",
    "<U+D835><U+DDBE>", "<U+D835><U+DDBF>", "<U+D835><U+DDC0>", "<U+D835><U+DDC1>",
    "<U+D835><U+DDC2>", "<U+D835><U+DDC3>", "<U+D835><U+DDC4>", "<U+D835><U+DDC5>",
    "<U+D835><U+DDC6>", "<U+D835><U+DDC7>", "<U+D835><U+DDC8>", "<U+D835><U+DDC9>",
    "<U+D835><U+DDCA>", "<U+D835><U+DDCB>", "<U+D835><U+DDCC>", "<U+D835><U+DDCD>",
    "<U+D835><U+DDCE>", "<U+D835><U+DDCF>", "<U+D835><U+DDD0>", "<U+D835><U+DDD1>",
    "<U+D835><U+DDD2>", "<U+D835><U+DDD3>", "<U+D835><U+DDD4>", "<U+D835><U+DDD5>",
    "<U+D835><U+DDD6>", "<U+D835><U+DDD7>", "<U+D835><U+DDD8>", "<U+D835><U+DDD9>",
    "<U+D835><U+DDDA>", "<U+D835><U+DDDB>", "<U+D835><U+DDDC>", "<U+D835><U+DDDD>",
    "<U+D835><U+DDDE>", "<U+D835><U+DDDF>", "<U+D835><U+DDE0>", "<U+D835><U+DDE1>",
    "<U+D835><U+DDE2>", "<U+D835><U+DDE3>", "<U+D835><U+DDE4>", "<U+D835><U+DDE5>",
    "<U+D835><U+DDE6>", "<U+D835><U+DDE7>", "<U+D835><U+DDE8>", "<U+D835><U+DDE9>",
    "<U+D835><U+DDEA>", "<U+D835><U+DDEB>", "<U+D835><U+DDEC>", "<U+D835><U+DDED>",
    "<U+D835><U+DDEE>", "<U+D835><U+DDEF>", "<U+D835><U+DDF0>", "<U+D835><U+DDF1>",
    "<U+D835><U+DDF2>", "<U+D835><U+DDF3>", "<U+D835><U+DDF4>", "<U+D835><U+DDF5>",
    "<U+D835><U+DDF6>", "<U+D835><U+DDF7>", "<U+D835><U+DDF8>", "<U+D835><U+DDF9>",
    "<U+D835><U+DDFA>", "<U+D835><U+DDFB>", "<U+D835><U+DDFC>", "<U+D835><U+DDFD>",
    "<U+D835><U+DDFE>", "<U+D835><U+DDFF>", "<U+D835><U+DE00>", "<U+D835><U+DE01>",
    "<U+D835><U+DE02>", "<U+D835><U+DE03>", "<U+D835><U+DE04>", "<U+D835><U+DE05>",
    "<U+D835><U+DE06>", "<U+D835><U+DE07>", "<U+D835><U+DE08>", "<U+D835><U+DE09>",
    "<U+D835><U+DE0A>", "<U+D835><U+DE0B>", "<U+D835><U+DE0C>", "<U+D835><U+DE0D>",
    "<U+D835><U+DE0E>", "<U+D835><U+DE0F>", "<U+D835><U+DE10>", "<U+D835><U+DE11>",
    "<U+D835><U+DE12>", "<U+D835><U+DE13>", "<U+D835><U+DE14>", "<U+D835><U+DE15>",
    "<U+D835><U+DE16>", "<U+D835><U+DE17>", "<U+D835><U+DE18>", "<U+D835><U+DE19>",
    "<U+D835><U+DE1A>", "<U+D835><U+DE1B>", "<U+D835><U+DE1C>", "<U+D835><U+DE1D>",
    "<U+D835><U+DE1E>", "<U+D835><U+DE1F>", "<U+D835><U+DE20>", "<U+D835><U+DE21>",
    "<U+D835><U+DE22>", "<U+D835><U+DE23>", "<U+D835><U+DE24>", "<U+D835><U+DE25>",
    "<U+D835><U+DE26>", "<U+D835><U+DE27>", "<U+D835><U+DE28>", "<U+D835><U+DE29>",
    "<U+D835><U+DE2A>", "<U+D835><U+DE2B>", "<U+D835><U+DE2C>", "<U+D835><U+DE2D>",
    "<U+D835><U+DE2E>", "<U+D835><U+DE2F>", "<U+D835><U+DE30>", "<U+D835><U+DE31>",
    "<U+D835><U+DE32>", "<U+D835><U+DE33>", "<U+D835><U+DE34>", "<U+D835><U+DE35>",
    "<U+D835><U+DE36>", "<U+D835><U+DE37>", "<U+D835><U+DE38>", "<U+D835><U+DE39>",
    "<U+D835><U+DE3A>", "<U+D835><U+DE3B>", "<U+D835><U+DE3C>", "<U+D835><U+DE3D>",
    "<U+D835><U+DE3E>", "<U+D835><U+DE3F>", "<U+D835><U+DE40>", "<U+D835><U+DE41>",
    "<U+D835><U+DE42>", "<U+D835><U+DE43>", "<U+D835><U+DE44>", "<U+D835><U+DE45>",
    "<U+D835><U+DE46>", "<U+D835><U+DE47>", "<U+D835><U+DE48>", "<U+D835><U+DE49>",
    "<U+D835><U+DE4A>", "<U+D835><U+DE4B>", "<U+D835><U+DE4C>", "<U+D835><U+DE4D>",
    "<U+D835><U+DE4E>", "<U+D835><U+DE4F>", "<U+D835><U+DE50>", "<U+D835><U+DE51>",
    "<U+D835><U+DE52>", "<U+D835><U+DE53>", "<U+D835><U+DE54>", "<U+D835><U+DE55>",
    "<U+D835><U+DE56>", "<U+D835><U+DE57>", "<U+D835><U+DE58>", "<U+D835><U+DE59>",
    "<U+D835><U+DE5A>", "<U+D835><U+DE5B>", "<U+D835><U+DE5C>", "<U+D835><U+DE5D>",
    "<U+D835><U+DE5E>", "<U+D835><U+DE5F>", "<U+D835><U+DE60>", "<U+D835><U+DE61>",
    "<U+D835><U+DE62>", "<U+D835><U+DE63>", "<U+D835><U+DE64>", "<U+D835><U+DE65>",
    "<U+D835><U+DE66>", "<U+D835><U+DE67>", "<U+D835><U+DE68>", "<U+D835><U+DE69>",
    "<U+D835><U+DE6A>", "<U+D835><U+DE6B>", "<U+D835><U+DE6C>", "<U+D835><U+DE6D>",
    "<U+D835><U+DE6E>", "<U+D835><U+DE6F>", "<U+D835><U+DE70>", "<U+D835><U+DE71>",
    "<U+D835><U+DE72>", "<U+D835><U+DE73>", "<U+D835><U+DE74>", "<U+D835><U+DE75>",
    "<U+D835><U+DE76>", "<U+D835><U+DE77>", "<U+D835><U+DE78>", "<U+D835><U+DE79>",
    "<U+D835><U+DE7A>", "<U+D835><U+DE7B>", "<U+D835><U+DE7C>", "<U+D835><U+DE7D>",
    "<U+D835><U+DE7E>", "<U+D835><U+DE7F>", "<U+D835><U+DE80>", "<U+D835><U+DE81>",
    "<U+D835><U+DE82>", "<U+D835><U+DE83>", "<U+D835><U+DE84>", "<U+D835><U+DE85>",
    "<U+D835><U+DE86>", "<U+D835><U+DE87>", "<U+D835><U+DE88>", "<U+D835><U+DE89>",
    "<U+D835><U+DE8A>", "<U+D835><U+DE8B>", "<U+D835><U+DE8C>", "<U+D835><U+DE8D>",
    "<U+D835><U+DE8E>", "<U+D835><U+DE8F>", "<U+D835><U+DE90>", "<U+D835><U+DE91>",
    "<U+D835><U+DE92>", "<U+D835><U+DE93>", "<U+D835><U+DE94>", "<U+D835><U+DE95>",
    "<U+D835><U+DE96>", "<U+D835><U+DE97>", "<U+D835><U+DE98>", "<U+D835><U+DE99>",
    "<U+D835><U+DE9A>", "<U+D835><U+DE9B>", "<U+D835><U+DE9C>", "<U+D835><U+DE9D>",
    "<U+D835><U+DE9E>", "<U+D835><U+DE9F>", "<U+D835><U+DEA0>", "<U+D835><U+DEA1>",
    "<U+D835><U+DEA2>", "<U+D835><U+DEA3>", "<U+D835><U+DEA4>", "<U+D835><U+DEA5>",
    "<U+D835><U+DEA8>", "<U+D835><U+DEA9>", "<U+D835><U+DEAA>", "<U+D835><U+DEAB>",
    "<U+D835><U+DEAC>", "<U+D835><U+DEAD>", "<U+D835><U+DEAE>", "<U+D835><U+DEAF>",
    "<U+D835><U+DEB0>", "<U+D835><U+DEB1>", "<U+D835><U+DEB2>", "<U+D835><U+DEB3>",
    "<U+D835><U+DEB4>", "<U+D835><U+DEB5>", "<U+D835><U+DEB6>", "<U+D835><U+DEB7>",
    "<U+D835><U+DEB8>", "<U+D835><U+DEB9>", "<U+D835><U+DEBA>", "<U+D835><U+DEBB>",
    "<U+D835><U+DEBC>", "<U+D835><U+DEBD>", "<U+D835><U+DEBE>", "<U+D835><U+DEBF>",
    "<U+D835><U+DEC0>", "<U+D835><U+DEC2>", "<U+D835><U+DEC3>", "<U+D835><U+DEC4>",
    "<U+D835><U+DEC5>", "<U+D835><U+DEC6>", "<U+D835><U+DEC7>", "<U+D835><U+DEC8>",
    "<U+D835><U+DEC9>", "<U+D835><U+DECA>", "<U+D835><U+DECB>", "<U+D835><U+DECC>",
    "<U+D835><U+DECD>", "<U+D835><U+DECE>", "<U+D835><U+DECF>", "<U+D835><U+DED0>",
    "<U+D835><U+DED1>", "<U+D835><U+DED2>", "<U+D835><U+DED3>", "<U+D835><U+DED4>",
    "<U+D835><U+DED5>", "<U+D835><U+DED6>", "<U+D835><U+DED7>", "<U+D835><U+DED8>",
    "<U+D835><U+DED9>", "<U+D835><U+DEDA>", "<U+D835><U+DEDC>", "<U+D835><U+DEDD>",
    "<U+D835><U+DEDE>", "<U+D835><U+DEDF>", "<U+D835><U+DEE0>", "<U+D835><U+DEE1>",
    "<U+D835><U+DEE2>", "<U+D835><U+DEE3>", "<U+D835><U+DEE4>", "<U+D835><U+DEE5>",
    "<U+D835><U+DEE6>", "<U+D835><U+DEE7>", "<U+D835><U+DEE8>", "<U+D835><U+DEE9>",
    "<U+D835><U+DEEA>", "<U+D835><U+DEEB>", "<U+D835><U+DEEC>", "<U+D835><U+DEED>",
    "<U+D835><U+DEEE>", "<U+D835><U+DEEF>", "<U+D835><U+DEF0>", "<U+D835><U+DEF1>",
    "<U+D835><U+DEF2>", "<U+D835><U+DEF3>", "<U+D835><U+DEF4>", "<U+D835><U+DEF5>",
    "<U+D835><U+DEF6>", "<U+D835><U+DEF7>", "<U+D835><U+DEF8>", "<U+D835><U+DEF9>",
    "<U+D835><U+DEFA>", "<U+D835><U+DEFC>", "<U+D835><U+DEFD>", "<U+D835><U+DEFE>",
    "<U+D835><U+DEFF>", "<U+D835><U+DF00>", "<U+D835><U+DF01>", "<U+D835><U+DF02>",
    "<U+D835><U+DF03>", "<U+D835><U+DF04>", "<U+D835><U+DF05>", "<U+D835><U+DF06>",
    "<U+D835><U+DF07>", "<U+D835><U+DF08>", "<U+D835><U+DF09>", "<U+D835><U+DF0A>",
    "<U+D835><U+DF0B>", "<U+D835><U+DF0C>", "<U+D835><U+DF0D>", "<U+D835><U+DF0E>",
    "<U+D835><U+DF0F>", "<U+D835><U+DF10>", "<U+D835><U+DF11>", "<U+D835><U+DF12>",
    "<U+D835><U+DF13>", "<U+D835><U+DF14>", "<U+D835><U+DF16>", "<U+D835><U+DF17>",
    "<U+D835><U+DF18>", "<U+D835><U+DF19>", "<U+D835><U+DF1A>", "<U+D835><U+DF1B>",
    "<U+D835><U+DF1C>", "<U+D835><U+DF1D>", "<U+D835><U+DF1E>", "<U+D835><U+DF1F>",
    "<U+D835><U+DF20>", "<U+D835><U+DF21>", "<U+D835><U+DF22>", "<U+D835><U+DF23>",
    "<U+D835><U+DF24>", "<U+D835><U+DF25>", "<U+D835><U+DF26>", "<U+D835><U+DF27>",
    "<U+D835><U+DF28>", "<U+D835><U+DF29>", "<U+D835><U+DF2A>", "<U+D835><U+DF2B>",
    "<U+D835><U+DF2C>", "<U+D835><U+DF2D>", "<U+D835><U+DF2E>", "<U+D835><U+DF2F>",
    "<U+D835><U+DF30>", "<U+D835><U+DF31>", "<U+D835><U+DF32>", "<U+D835><U+DF33>",
    "<U+D835><U+DF34>", "<U+D835><U+DF36>", "<U+D835><U+DF37>", "<U+D835><U+DF38>",
    "<U+D835><U+DF39>", "<U+D835><U+DF3A>", "<U+D835><U+DF3B>", "<U+D835><U+DF3C>",
    "<U+D835><U+DF3D>", "<U+D835><U+DF3E>", "<U+D835><U+DF3F>", "<U+D835><U+DF40>",
    "<U+D835><U+DF41>", "<U+D835><U+DF42>", "<U+D835><U+DF43>", "<U+D835><U+DF44>",
    "<U+D835><U+DF45>", "<U+D835><U+DF46>", "<U+D835><U+DF47>", "<U+D835><U+DF48>",
    "<U+D835><U+DF49>", "<U+D835><U+DF4A>", "<U+D835><U+DF4B>", "<U+D835><U+DF4C>",
    "<U+D835><U+DF4D>", "<U+D835><U+DF4E>", "<U+D835><U+DF50>", "<U+D835><U+DF51>",
    "<U+D835><U+DF52>", "<U+D835><U+DF53>", "<U+D835><U+DF54>", "<U+D835><U+DF55>",
    "<U+D835><U+DF56>", "<U+D835><U+DF57>", "<U+D835><U+DF58>", "<U+D835><U+DF59>",
    "<U+D835><U+DF5A>", "<U+D835><U+DF5B>", "<U+D835><U+DF5C>", "<U+D835><U+DF5D>",
    "<U+D835><U+DF5E>", "<U+D835><U+DF5F>", "<U+D835><U+DF60>", "<U+D835><U+DF61>",
    "<U+D835><U+DF62>", "<U+D835><U+DF63>", "<U+D835><U+DF64>", "<U+D835><U+DF65>",
    "<U+D835><U+DF66>", "<U+D835><U+DF67>", "<U+D835><U+DF68>", "<U+D835><U+DF69>",
    "<U+D835><U+DF6A>", "<U+D835><U+DF6B>", "<U+D835><U+DF6C>", "<U+D835><U+DF6D>",
    "<U+D835><U+DF6E>", "<U+D835><U+DF70>", "<U+D835><U+DF71>", "<U+D835><U+DF72>",
    "<U+D835><U+DF73>", "<U+D835><U+DF74>", "<U+D835><U+DF75>", "<U+D835><U+DF76>",
    "<U+D835><U+DF77>", "<U+D835><U+DF78>", "<U+D835><U+DF79>", "<U+D835><U+DF7A>",
    "<U+D835><U+DF7B>", "<U+D835><U+DF7C>", "<U+D835><U+DF7D>", "<U+D835><U+DF7E>",
    "<U+D835><U+DF7F>", "<U+D835><U+DF80>", "<U+D835><U+DF81>", "<U+D835><U+DF82>",
    "<U+D835><U+DF83>", "<U+D835><U+DF84>", "<U+D835><U+DF85>", "<U+D835><U+DF86>",
    "<U+D835><U+DF87>", "<U+D835><U+DF88>", "<U+D835><U+DF8A>", "<U+D835><U+DF8B>",
    "<U+D835><U+DF8C>", "<U+D835><U+DF8D>", "<U+D835><U+DF8E>", "<U+D835><U+DF8F>",
    "<U+D835><U+DF90>", "<U+D835><U+DF91>", "<U+D835><U+DF92>", "<U+D835><U+DF93>",
    "<U+D835><U+DF94>", "<U+D835><U+DF95>", "<U+D835><U+DF96>", "<U+D835><U+DF97>",
    "<U+D835><U+DF98>", "<U+D835><U+DF99>", "<U+D835><U+DF9A>", "<U+D835><U+DF9B>",
    "<U+D835><U+DF9C>", "<U+D835><U+DF9D>", "<U+D835><U+DF9E>", "<U+D835><U+DF9F>",
    "<U+D835><U+DFA0>", "<U+D835><U+DFA1>", "<U+D835><U+DFA2>", "<U+D835><U+DFA3>",
    "<U+D835><U+DFA4>", "<U+D835><U+DFA5>", "<U+D835><U+DFA6>", "<U+D835><U+DFA7>",
    "<U+D835><U+DFA8>", "<U+D835><U+DFAA>", "<U+D835><U+DFAB>", "<U+D835><U+DFAC>",
    "<U+D835><U+DFAD>", "<U+D835><U+DFAE>", "<U+D835><U+DFAF>", "<U+D835><U+DFB0>",
    "<U+D835><U+DFB1>", "<U+D835><U+DFB2>", "<U+D835><U+DFB3>", "<U+D835><U+DFB4>",
    "<U+D835><U+DFB5>", "<U+D835><U+DFB6>", "<U+D835><U+DFB7>", "<U+D835><U+DFB8>",
    "<U+D835><U+DFB9>", "<U+D835><U+DFBA>", "<U+D835><U+DFBB>", "<U+D835><U+DFBC>",
    "<U+D835><U+DFBD>", "<U+D835><U+DFBE>", "<U+D835><U+DFBF>", "<U+D835><U+DFC0>",
    "<U+D835><U+DFC1>", "<U+D835><U+DFC2>", "<U+D835><U+DFC4>", "<U+D835><U+DFC5>",
    "<U+D835><U+DFC6>", "<U+D835><U+DFC7>", "<U+D835><U+DFC8>", "<U+D835><U+DFC9>",
    "<U+D835><U+DFCA>", "<U+D835><U+DFCB>", "<U+D837><U+DF00>", "<U+D837><U+DF01>",
    "<U+D837><U+DF02>", "<U+D837><U+DF03>", "<U+D837><U+DF04>", "<U+D837><U+DF05>",
    "<U+D837><U+DF06>", "<U+D837><U+DF07>", "<U+D837><U+DF08>", "<U+D837><U+DF09>",
    "<U+D837><U+DF0B>", "<U+D837><U+DF0C>", "<U+D837><U+DF0D>", "<U+D837><U+DF0E>",
    "<U+D837><U+DF0F>", "<U+D837><U+DF10>", "<U+D837><U+DF11>", "<U+D837><U+DF12>",
    "<U+D837><U+DF13>", "<U+D837><U+DF14>", "<U+D837><U+DF15>", "<U+D837><U+DF16>",
    "<U+D837><U+DF17>", "<U+D837><U+DF18>", "<U+D837><U+DF19>", "<U+D837><U+DF1A>",
    "<U+D837><U+DF1B>", "<U+D837><U+DF1C>", "<U+D837><U+DF1D>", "<U+D837><U+DF1E>",
    "<U+D837><U+DF25>", "<U+D837><U+DF26>", "<U+D837><U+DF27>", "<U+D837><U+DF28>",
    "<U+D837><U+DF29>", "<U+D837><U+DF2A>", "<U+D83A><U+DD00>", "<U+D83A><U+DD01>",
    "<U+D83A><U+DD02>", "<U+D83A><U+DD03>", "<U+D83A><U+DD04>", "<U+D83A><U+DD05>",
    "<U+D83A><U+DD06>", "<U+D83A><U+DD07>", "<U+D83A><U+DD08>", "<U+D83A><U+DD09>",
    "<U+D83A><U+DD0A>", "<U+D83A><U+DD0B>", "<U+D83A><U+DD0C>", "<U+D83A><U+DD0D>",
    "<U+D83A><U+DD0E>", "<U+D83A><U+DD0F>", "<U+D83A><U+DD10>", "<U+D83A><U+DD11>",
    "<U+D83A><U+DD12>", "<U+D83A><U+DD13>", "<U+D83A><U+DD14>", "<U+D83A><U+DD15>",
    "<U+D83A><U+DD16>", "<U+D83A><U+DD17>", "<U+D83A><U+DD18>", "<U+D83A><U+DD19>",
    "<U+D83A><U+DD1A>", "<U+D83A><U+DD1B>", "<U+D83A><U+DD1C>", "<U+D83A><U+DD1D>",
    "<U+D83A><U+DD1E>", "<U+D83A><U+DD1F>", "<U+D83A><U+DD20>", "<U+D83A><U+DD21>",
    "<U+D83A><U+DD22>", "<U+D83A><U+DD23>", "<U+D83A><U+DD24>", "<U+D83A><U+DD25>",
    "<U+D83A><U+DD26>", "<U+D83A><U+DD27>", "<U+D83A><U+DD28>", "<U+D83A><U+DD29>",
    "<U+D83A><U+DD2A>", "<U+D83A><U+DD2B>", "<U+D83A><U+DD2C>", "<U+D83A><U+DD2D>",
    "<U+D83A><U+DD2E>", "<U+D83A><U+DD2F>", "<U+D83A><U+DD30>", "<U+D83A><U+DD31>",
    "<U+D83A><U+DD32>", "<U+D83A><U+DD33>", "<U+D83A><U+DD34>", "<U+D83A><U+DD35>",
    "<U+D83A><U+DD36>", "<U+D83A><U+DD37>", "<U+D83A><U+DD38>", "<U+D83A><U+DD39>",
    "<U+D83A><U+DD3A>", "<U+D83A><U+DD3B>", "<U+D83A><U+DD3C>", "<U+D83A><U+DD3D>",
    "<U+D83A><U+DD3E>", "<U+D83A><U+DD3F>", "<U+D83A><U+DD40>", "<U+D83A><U+DD41>",
    "<U+D83A><U+DD42>", "<U+D83A><U+DD43>", "<U+D83C><U+DD30>", "<U+D83C><U+DD31>",
    "<U+D83C><U+DD32>", "<U+D83C><U+DD33>", "<U+D83C><U+DD34>", "<U+D83C><U+DD35>",
    "<U+D83C><U+DD36>", "<U+D83C><U+DD37>", "<U+D83C><U+DD38>", "<U+D83C><U+DD39>",
    "<U+D83C><U+DD3A>", "<U+D83C><U+DD3B>", "<U+D83C><U+DD3C>", "<U+D83C><U+DD3D>",
    "<U+D83C><U+DD3E>", "<U+D83C><U+DD3F>", "<U+D83C><U+DD40>", "<U+D83C><U+DD41>",
    "<U+D83C><U+DD42>", "<U+D83C><U+DD43>", "<U+D83C><U+DD44>", "<U+D83C><U+DD45>",
    "<U+D83C><U+DD46>", "<U+D83C><U+DD47>", "<U+D83C><U+DD48>", "<U+D83C><U+DD49>",
    "<U+D83C><U+DD50>", "<U+D83C><U+DD51>", "<U+D83C><U+DD52>", "<U+D83C><U+DD53>",
    "<U+D83C><U+DD54>", "<U+D83C><U+DD55>", "<U+D83C><U+DD56>", "<U+D83C><U+DD57>",
    "<U+D83C><U+DD58>", "<U+D83C><U+DD59>", "<U+D83C><U+DD5A>", "<U+D83C><U+DD5B>",
    "<U+D83C><U+DD5C>", "<U+D83C><U+DD5D>", "<U+D83C><U+DD5E>", "<U+D83C><U+DD5F>",
    "<U+D83C><U+DD60>", "<U+D83C><U+DD61>", "<U+D83C><U+DD62>", "<U+D83C><U+DD63>",
    "<U+D83C><U+DD64>", "<U+D83C><U+DD65>", "<U+D83C><U+DD66>", "<U+D83C><U+DD67>",
    "<U+D83C><U+DD68>", "<U+D83C><U+DD69>", "<U+D83C><U+DD70>", "<U+D83C><U+DD71>",
    "<U+D83C><U+DD72>", "<U+D83C><U+DD73>", "<U+D83C><U+DD74>", "<U+D83C><U+DD75>",
    "<U+D83C><U+DD76>", "<U+D83C><U+DD77>", "<U+D83C><U+DD78>", "<U+D83C><U+DD79>",
    "<U+D83C><U+DD7A>", "<U+D83C><U+DD7B>", "<U+D83C><U+DD7C>", "<U+D83C><U+DD7D>",
    "<U+D83C><U+DD7E>", "<U+D83C><U+DD7F>", "<U+D83C><U+DD80>", "<U+D83C><U+DD81>",
    "<U+D83C><U+DD82>", "<U+D83C><U+DD83>", "<U+D83C><U+DD84>", "<U+D83C><U+DD85>",
    "<U+D83C><U+DD86>", "<U+D83C><U+DD87>", "<U+D83C><U+DD88>", "<U+D83C><U+DD89>"
  }

\* the characters outside a-z that toUpperCase() changes, and the characters
\* it maps each to (one, two or three)
OtherLowerSeq ==
  <<
     "<U+00B5>", "<U+00DF>", "<U+00E0>", "<U+00E1>", "<U+00E2>", "<U+00E3>",
     "<U+00E4>", "<U+00E5>", "<U+00E6>", "<U+00E7>", "<U+00E8>", "<U+00E9>",
     "<U+00EA>", "<U+00EB>", "<U+00EC>", "<U+00ED>", "<U+00EE>", "<U+00EF>",
     "<U+00F0>", "<U+00F1>", "<U+00F2>", "<U+00F3>", "<U+00F4>", "<U+00F5>",
     "<U+00F6>", "<U+00F8>", "<U+00F9>", "<U+00FA>", "<U+00FB>", "<U+00FC>",
     "<U+00FD>", "<U+00FE>", "<U+00FF>", "<U+0101>", "<U+0103>", "<U+0105>",
     "<U+0107>", "<U+0109>", "<U+010B>", "<U+010D>", "<U+010F>", "<U+0111>",
     "<U+0113>", "<U+0115>", "<U+0117>", "<U+0119>", "<U+011B>", "<U+011D>",
     "<U+011F>", "<U+0121>", "<U+0123>", "<U+0125>", "<U+0127>", "<U+0129>",
     "<U+012B>", "<U+012D>", "<U+012F>", "<U+0131>", "<U+0133>", "<U+0135>",
     "<U+0137>", "<U+013A>", "<U+013C>", "<U+013E>", "<U+0140>", "<U+0142>",
     "<U+0144>", "<U+0146>", "<U+0148>", "<U+0149>", "<U+014B>", "<U+014D>",
     "<U+014F>", "<U+0151>", "<U+0153>", "<U+0155>", "<U+0157>", "<U+0159>",
     "<U+015B>", "<U+015D>", "<U+015F>", "<U+0161>", "<U+0163>", "<U+0165>",
     "<U+0167>", "<U+0169>", "<U+016B>", "<U+016D>", "<U+016F>", "<U+0171>",
     "<U+0173>", "<U+0175>", "<U+0177>", "<U+017A>", "<U+017C>", "<U+017E>",
     "<U+017F>", "<U+0180>", "<U+0183>", "<U+0185>", "<U+0188>", "<U+018C>",
     "<U+0192>", "<U+0195>", "<U+0199>", "<U+019A>", "<U+019B>", "<U+019E>",
     "<U+01A1>", "<U+01A3>", "<U+01A5>", "<U+01A8>", "<U+01AD>", "<U+01B0>",
     "<U+01B4>", "<U+01B6>", "<U+01B9>", "<U+01BD>", "<U+01BF>", "<U+01C5>",
     "<U+01C6>", "<U+01C8>", "<U+01C9>", "<U+01CB>", "<U+01CC>", "<U+01CE>",
     "<U+01D0>", "<U+01D2>", "<U+01D4>", "<U+01D6>", "<U+01D8>", "<U+01DA>",
     "<U+01DC>", "<U+01DD>", "<U+01DF>", "<U+01E1>", "<U+01E3>", "<U+01E5>",
     "<U+01E7>", "<U+01E9>", "<U+01EB>", "<U+01ED>", "<U+01EF>", "<U+01F0>",
     "<U+01F2>", "<U+01F3>", "<U+01F5>", "<U+01F9>", "<U+01FB>", "<U+01FD>",
     "<U+01FF>", "<U+0201>", "<U+0203>", "<U+0205>", "<U+0207>", "<U+0209>",
     "<U+020B>", "<U+020D>", "<U+020F>", "<U+0211>", "<U+0213>", "<U+0215>",
     "<U+0217>", "<U+0219>", "<U+021B>", "<U+021D>", "<U+021F>", "<U+0223>",
     "<U+0225>", "<U+0227>", "<U+0229>", "<U+022B>", "<U+022D>", "<U+022F>",
     "<U+0231>", "<U+0233>", "<U+023C>", "<U+023F>", "<U+0240>", "<U+0242>",
     "<U+0247>", "<U+0249>", "<U+024B>", "<U+024D>", "<U+024F>", "<U+0250>",
     "<U+0251>", "<U+0252>", "<U+0253>", "<U+0254>", "<U+0256>", "<U+0257>",
     "<U+0259>", "<U+025B>", "<U+025C>", "<U+0260>", "<U+0261>", "<U+0263>",
     "<U+0264>", "<U+0265>", "<U+0266>", "<U+0268>", "<U+0269>", "<U+026A>",
     "<U+026B>", "<U+026C>", "<U+026F>", "<U+0271>", "<U+0272>", "<U+0275>",
     "<U+027D>", "<U+0280>", "<U+0282>", "<U+0283>", "<U+0287>", "<U+0288>",
     "<U+0289>", "<U+028A>", "<U+028B>", "<U+028C>", "<U+0292>", "<U+029D>",
     "<U+029E>", "<U+0345>", "<U+0371>", "<U+0373>", "<U+0377>", "<U+037B>",
     "<U+037C>", "<U+037D>", "<U+0390>", "<U+03AC>", "<U+03AD>", "<U+03AE>",
     "<U+03AF>", "<U+03B0>", "<U+03B1>", "<U+03B2>", "<U+03B3>", "<U+03B4>",
     "<U+03B5>", "<U+03B6>", "<U+03B7>", "<U+03B8>", "<U+03B9>", "<U+03BA>",
     "<U+03BB>", "<U+03BC>", "<U+03BD>", "<U+03BE>", "<U+03BF>", "<U+03C0>",
     "<U+03C1>", "<U+03C2>", "<U+03C3>", "<U+03C4>", "<U+03C5>", "<U+03C6>",
     "<U+03C7>", "<U+03C8>", "<U+03C9>", "<U+03CA>", "<U+03CB>", "<U+03CC>",
     "<U+03CD>", "<U+03CE>", "<U+03D0>", "<U+03D1>", "<U+03D5>", "<U+03D6>",
     "<U+03D7>", "<U+03D9>", "<U+03DB>", "<U+03DD>", "<U+03DF>", "<U+03E1>",
     "<U+03E3>", "<U+03E5>", "<U+03E7>", "<U+03E9>", "<U+03EB>", "<U+03ED>",
     "<U+03EF>", "<U+03F0>", "<U+03F1>", "<U+03F2>", "<U+03F3>", "<U+03F5>",
     "<U+03F8>", "<U+03FB>", "<U+0430>", "<U+0431>", "<U+0432>", "<U+0433>",
     "<U+0434>", "<U+0435>", "<U+0436>", "<U+0437>", "<U+0438>", "<U+0439>",
     "<U+043A>", "<U+043B>", "<U+043C>", "<U+043D>", "<U+043E>", "<U+043F>",
     "<U+0440>", "<U+0441>", "<U+0442>", "<U+0443>", "<U+0444>", "<U+0445>",
     "<U+0446>", "<U+0447>", "<U+0448>", "<U+0449>", "<U+044A>", "<U+044B>",
     "<U+044C>", "<U+044D>", "<U+044E>", "<U+044F>", "<U+0450>", "<U+0451>",
     "<U+0452>", "<U+0453>", "<U+0454>", "<U+0455>", "<U+0456>", "<U+0457>",
     "<U+0458>", "<U+0459>", "<U+045A>", "<U+045B>", "<U+045C>", "<U+045D>",
     "<U+045E>", "<U+045F>", "<U+0461>", "<U+0463>", "<U+0465>", "<U+0467>",
     "<U+0469>", "<U+046B>", "<U+046D>", "<U+046F>", "<U+0471>", "<U+0473>",
     "<U+0475>", "<U+0477>", "<U+0479>", "<U+047B>", "<U+047D>", "<U+047F>",
     "<U+0481>", "<U+048B>", "<U+048D>", "<U+048F>", "<U+0491>", "<U+0493>",
     "<U+0495>", "<U+0497>", "<U+0499>", "<U+049B>", "<U+049D>", "<U+049F>",
     "<U+04A1>", "<U+04A3>", "<U+04A5>", "<U+04A7>", "<U+04A9>", "<U+04AB>",
     "<U+04AD>", "<U+04AF>", "<U+04B1>", "<U+04B3>", "<U+04B5>", "<U+04B7>",
     "<U+04B9>", "<U+04BB>", "<U+04BD>", "<U+04BF>", "<U+04C2>", "<U+04C4>",
     "<U+04C6>", "<U+04C8>", "<U+04CA>", "<U+04CC>", "<U+04CE>", "<U+04CF>",
     "<U+04D1>", "<U+04D3>", "<U+04D5>", "<U+04D7>", "<U+04D9>", "<U+04DB>",
     "<U+04DD>", "<U+04DF>", "<U+04E1>", "<U+04E3>", "<U+04E5>", "<U+04E7>",
     "<U+04E9>", "<U+04EB>", "<U+04ED>", "<U+04EF>", "<U+04F1>", "<U+04F3>",
     "<U+04F5>", "<U+04F7>", "<U+04F9>", "<U+04FB>", "<U+04FD>", "<U+04FF>",
     "<U+0501>", "<U+0503>", "<U+0505>", "<U+0507>", "<U+0509>", "<U+050B>",
     "<U+050D>", "<U+050F>", "<U+0511>", "<U+0513>", "<U+0515>", "<U+0517>",
     "<U+0519>", "<U+051B>", "<U+051D>", "<U+051F>", "<U+0521>", "<U+0523>",
     "<U+0525>", "<U+0527>", "<U+0529>", "<U+052B>", "<U+052D>", "<U+052F>",
     "<U+0561>", "<U+0562>", "<U+0563>", "<U+0564>", "<U+0565>", "<U+0566>",
     "<U+0567>", "<U+0568>", "<U+0569>", "<U+056A>", "<U+056B>", "<U+056C>",
     "<U+056D>", "<U+056E>", "<U+056F>", "<U+0570>", "<U+0571>", "<U+0572>",
     "<U+0573>", "<U+0574>", "<U+0575>", "<U+0576>", "<U+0577>", "<U+0578>",
     "<U+0579>", "<U+057A>", "<U+057B>", "<U+057C>", "<U+057D>", "<U+057E>",
     "<U+057F>", "<U+0580>", "<U+0581>", "<U+0582>", "<U+0583>", "<U+0584>",
     "<U+0585>", "<U+0586>", "<U+0587>", "<U+10D0>", "<U+10D1>", "<U+10D2>",
     "<U+10D3>", "<U+10D4>", "<U+10D5>", "<U+10D6>", "<U+10D7>", "<U+10D8>",
     "<U+10D9>", "<U+10DA>", "<U+10DB>", "<U+10DC>", "<U+10DD>", "<U+10DE>",
     "<U+10DF>", "<U+10E0>", "<U+10E1>", "<U+10E2>", "<U+10E3>", "<U+10E4>",
     "<U+10E5>", "<U+10E6>", "<U+10E7>", "<U+10E8>", "<U+10E9>", "<U+10EA>",
     "<U+10EB>", "<U+10EC>", "<U+10ED>", "<U+10EE>", "<U+10EF>", "<U+10F0>",
     "<U+10F1>", "<U+10F2>", "<U+10F3>", "<U+10F4>", "<U+10F5>", "<U+10F6>",
     "<U+10F7>", "<U+10F8>", "<U+10F9>", "<U+10FA>", "<U+10FD>", "<U+10FE>",
     "<U+10FF>", "<U+13F8>", "<U+13F9>", "<U+13FA>", "<U+13FB>", "<U+13FC>",
     "<U+13FD>", "<U+1C80>", "<U+1C81>", "<U+1C82>", "<U+1C83>", "<U+1C84>",
     "<U+1C85>", "<U+1C86>", "<U+1C87>", "<U+1C88>", "<U+1C8A>", "<U+1D79>",
     "<U+1D7D>", "<U+1D8E>", "<U+1E01>", "<U+1E03>", "<U+1E05>", "<U+1E07>",
     "<U+1E09>", "<U+1E0B>", "<U+1E0D>", "<U+1E0F>", "<U+1E11>", "<U+1E13>",
     "<U+1E15>", "<U+1E17>", "<U+1E19>", "<U+1E1B>", "<U+1E1D>", "<U+1E1F>",
     "<U+1E21>", "<U+1E23>", "<U+1E25>", "<U+1E27>", "<U+1E29>", "<U+1E2B>",
     "<U+1E2D>", "<U+1E2F>", "<U+1E31>", "<U+1E33>", "<U+1E35>", "<U+1E37>",
     "<U+1E39>", "<U+1E3B>", "<U+1E3D>", "<U+1E3F>", "<U+1E41>", "<U+1E43>",
     "<U+1E45>", "<U+1E47>", "<U+1E49>", "<U+1E4B>", "<U+1E4D>", "<U+1E4F>",
     "<U+1E51>", "<U+1E53>", "<U+1E55>", "<U+1E57>", "<U+1E59>", "<U+1E5B>",
     "<U+1E5D>", "<U+1E5F>", "<U+1E61>", "<U+1E63>", "<U+1E65>", "<U+1E67>",
     "<U+1E69>", "<U+1E6B>", "<U+1E6D>", "<U+1E6F>", "<U+1E71>", "<U+1E73>",
     "<U+1E75>", "<U+1E77>", "<U+1E79>", "<U+1E7B>", "<U+1E7D>", "<U+1E7F>",
     "<U+1E81>", "<U+1E83>", "<U+1E85>", "<U+1E87>", "<U+1E89>", "<U+1E8B>",
     "<U+1E8D>", "<U+1E8F>", "<U+1E91>", "<U+1E93>", "<U+1E95>", "<U+1E96>",
     "<U+1E97>", "<U+1E98>", "<U+1E99>", "<U+1E9A>", "<U+1E9B>", "<U+1EA1>",
     "<U+1EA3>", "<U+1EA5>", "<U+1EA7>", "<U+1EA9>", "<U+1EAB>", "<U+1EAD>",
     "<U+1EAF>", "<U+1EB1>", "<U+1EB3>", "<U+1EB5>", "<U+1EB7>", "<U+1EB9>",
     "<U+1EBB>", "<U+1EBD>", "<U+1EBF>", "<U+1EC1>", "<U+1EC3>", "<U+1EC5>",
     "<U+1EC7>", "<U+1EC9>", "<U+1ECB>", "<U+1ECD>", "<U+1ECF>", "<U+1ED1>",
     "<U+1ED3>", "<U+1ED5>", "<U+1ED7>", "<U+1ED9>", "<U+1EDB>", "<U+1EDD>",
     "<U+1EDF>", "<U+1EE1>", "<U+1EE3>", "<U+1EE5>", "<U+1EE7>", "<U+1EE9>",
     "<U+1EEB>", "<U+1EED>", "<U+1EEF>", "<U+1EF1>", "<U+1EF3>", "<U+1EF5>",
     "<U+1EF7>", "<U+1EF9>", "<U+1EFB>", "<U+1EFD>", "<U+1EFF>", "<U+1F00>",
     "<U+1F01>", "<U+1F02>", "<U+1F03>", "<U+1F04>", "<U+1F05>", "<U+1F06>",
     "<U+1F07>", "<U+1F10>", "<U+1F11>", "<U+1F12>", "<U+1F13>", "<U+1F14>",
     "<U+1F15>", "<U+1F20>", "<U+1F21>", "<U+1F22>", "<U+1F23>", "<U+1F24>",
     "<U+1F25>", "<U+1F26>", "<U+1F27>", "<U+1F30>", "<U+1F31>", "<U+1F32>",
     "<U+1F33>", "<U+1F34>", "<U+1F35>", "<U+1F36>", "<U+1F37>", "<U+1F40>",
     "<U+1F41>", "<U+1F42>", "<U+1F43>", "<U+1F44>", "<U+1F45>", "<U+1F50>",
     "<U+1F51>", "<U+1F52>", "<U+1F53>", "<U+1F54>", "<U+1F55>", "<U+1F56>",
     "<U+1F57>", "<U+1F60>", "<U+1F61>", "<U+1F62>", "<U+1F63>", "<U+1F64>",
     "<U+1F65>", "<U+1F66>", "<U+1F67>", "<U+1F70>", "<U+1F71>", "<U+1F72>",
     "<U+1F73>", "<U+1F74>", "<U+1F75>", "<U+1F76>", "<U+1F77>", "<U+1F78>",
     "<U+1F79>", "<U+1F7A>", "<U+1F7B>", "<U+1F7C>", "<U+1F7D>", "<U+1F80>",
     "<U+1F81>", "<U+1F82>", "<U+1F83>", "<U+1F84>", "<U+1F85>", "<U+1F86>",
     "<U+1F87>", "<U+1F88>", "<U+1F89>", "<U+1F8A>", "<U+1F8B>", "<U+1F8C>",
     "<U+1F8D>", "<U+1F8E>", "<U+1F8F>", "<U+1F90>", "<U+1F91>", "<U+1F92>",
     "<U+1F93>", "<U+1F94>", "<U+1F95>", "<U+1F96>", "<U+1F97>", "<U+1F98>",
     "<U+1F99>", "<U+1F9A>", "<U+1F9B>", "<U+1F9C>", "<U+1F9D>", "<U+1F9E>",
     "<U+1F9F>", "<U+1FA0>", "<U+1FA1>", "<U+1FA2>", "<U+1FA3>", "<U+1FA4>",
     "<U+1FA5>", "<U+1FA6>", "<U+1FA7>", "<U+1FA8>", "<U+1FA9>", "<U+1FAA>",
     "<U+1FAB>", "<U+1FAC>", "<U+1FAD>", "<U+1FAE>", "<U+1FAF>", "<U+1FB0>",
     "<U+1FB1>", "<U+1FB2>", "<U+1FB3>", "<U+1FB4>", "<U+1FB6>", "<U+1FB7>",
     "<U+1FBC>", "<U+1FBE>", "<U+1FC2>", "<U+1FC3>", "<U+1FC4>", "<U+1FC6>",
     "<U+1FC7>", "<U+1FCC>", "<U+1FD0>", "<U+1FD1>", "<U+1FD2>", "<U+1FD3>",
     "<U+1FD6>", "<U+1FD7>", "<U+1FE0>", "<U+1FE1>", "<U+1FE2>", "<U+1FE3>",
     "<U+1FE4>", "<U+1FE5>", "<U+1FE6>", "<U+1FE7>", "<U+1FF2>", "<U+1FF3>",
     "<U+1FF4>", "<U+1FF6>", "<U+1FF7>", "<U+1FFC>", "<U+214E>", "<U+2170>",
     "<U+2171>", "<U+2172>", "<U+2173>", "<U+2174>", "<U+2175>", "<U+2176>",
     "<U+2177>", "<U+2178>", "<U+2179>", "<U+217A>", "<U+217B>", "<U+217C>",
     "<U+217D>", "<U+217E>", "<U+217F>", "<U+2184>", "<U+24D0>", "<U+24D1>",
     "<U+24D2>", "<U+24D3>", "<U+24D4>", "<U+24D5>", "<U+24D6>", "<U+24D7>",
     "<U+24D8>", "<U+24D9>", "<U+24DA>", "<U+24DB>", "<U+24DC>", "<U+24DD>",
     "<U+24DE>", "<U+24DF>", "<U+24E0>", "<U+24E1>", "<U+24E2>", "<U+24E3>",
     "<U+24E4>", "<U+24E5>", "<U+24E6>", "<U+24E7>", "<U+24E8>", "<U+24E9>",
     "<U+2C30>", "<U+2C31>", "<U+2C32>", "<U+2C33>", "<U+2C34>", "<U+2C35>",
     "<U+2C36>", "<U+2C37>", "<U+2C38>", "<U+2C39>", "<U+2C3A>", "<U+2C3B>",
     "<U+2C3C>", "<U+2C3D>", "<U+2C3E>", "<U+2C3F>", "<U+2C40>", "<U+2C41>",
     "<U+2C42>", "<U+2C43>", "<U+2C44>", "<U+2C45>", "<U+2C46>", "<U+2C47>",
     "<U+2C48>", "<U+2C49>", "<U+2C4A>", "<U+2C4B>", "<U+2C4C>", "<U+2C4D>",
     "<U+2C4E>", "<U+2C4F>", "<U+2C50>", "<U+2C51>", "<U+2C52>", "<U+2C53>",
     "<U+2C54>", "<U+2C55>", "<U+2C56>", "<U+2C57>", "<U+2C58>", "<U+2C59>",
     "<U+2C5A>", "<U+2C5B>", "<U+2C5C>", "<U+2C5D>", "<U+2C5E>", "<U+2C5F>",
     "<U+2C61>", "<U+2C65>", "<U+2C66>", "<U+2C68>", "<U+2C6A>", "<U+2C6C>",
     "<U+2C73>", "<U+2C76>", "<U+2C81>", "<U+2C83>", "<U+2C85>", "<U+2C87>",
     "<U+2C89>", "<U+2C8B>", "<U+2C8D>", "<U+2C8F>", "<U+2C91>", "<U+2C93>",
     "<U+2C95>", "<U+2C97>", "<U+2C99>", "<U+2C9B>", "<U+2C9D>", "<U+2C9F>",
     "<U+2CA1>", "<U+2CA3>", "<U+2CA5>", "<U+2CA7>", "<U+2CA9>", "<U+2CAB>",
     "<U+2CAD>", "<U+2CAF>", "<U+2CB1>", "<U+2CB3>", "<U+2CB5>", "<U+2CB7>",
     "<U+2CB9>", "<U+2CBB>", "<U+2CBD>", "<U+2CBF>", "<U+2CC1>", "<U+2CC3>",
     "<U+2CC5>", "<U+2CC7>", "<U+2CC9>", "<U+2CCB>", "<U+2CCD>", "<U+2CCF>",
     "<U+2CD1>", "<U+2CD3>", "<U+2CD5>", "<U+2CD7>", "<U+2CD9>", "<U+2CDB>",
     "<U+2CDD>", "<U+2CDF>", "<U+2CE1>", "<U+2CE3>", "<U+2CEC>", "<U+2CEE>",
     "<U+2CF3>", "<U+2D00>", "<U+2D01>", "<U+2D02>", "<U+2D03>", "<U+2D04>",
     "<U+2D05>", "<U+2D06>", "<U+2D07>", "<U+2D08>", "<U+2D09>", "<U+2D0A>",
     "<U+2D0B>", "<U+2D0C>", "<U+2D0D>", "<U+2D0E>", "<U+2D0F>", "<U+2D10>",
     "<U+2D11>", "<U+2D12>", "<U+2D13>", "<U+2D14>", "<U+2D15>", "<U+2D16>",
     "<U+2D17>", "<U+2D18>", "<U+2D19>", "<U+2D1A>", "<U+2D1B>", "<U+2D1C>",
     "<U+2D1D>", "<U+2D1E>", "<U+2D1F>", "<U+2D20>", "<U+2D21>", "<U+2D22>",
     "<U+2D23>", "<U+2D24>", "<U+2D25>", "<U+2D27>", "<U+2D2D>", "<U+A641>",
     "<U+A643>", "<U+A645>", "<U+A647>", "<U+A649>", "<U+A64B>", "<U+A64D>",
     "<U+A64F>", "<U+A651>", "<U+A653>", "<U+A655>", "<U+A657>", "<U+A659>",
     "<U+A65B>", "<U+A65D>", "<U+A65F>", "<U+A661>", "<U+A663>", "<U+A665>",
     "<U+A667>", "<U+A669>", "<U+A66B>", "<U+A66D>", "<U+A681>", "<U+A683>",
     "<U+A685>", "<U+A687>", "<U+A689>", "<U+A68B>", "<U+A68D>", "<U+A68F>",
     "<U+A691>", "<U+A693>", "<U+A695>", "<U+A697>", "<U+A699>", "<U+A69B>",
     "<U+A723>", "<U+A725>", "<U+A727>", "<U+A729>", "<U+A72B>", "<U+A72D>",
     "<U+A72F>", "<U+A733>", "<U+A735>", "<U+A737>", "<U+A739>", "<U+A73B>",
     "<U+A73D>", "<U+A73F>", "<U+A741>", "<U+A743>", "<U+A745>", "<U+A747>",
     "<U+A749>", "<U+A74B>", "<U+A74D>", "<U+A74F>", "<U+A751>", "<U+A753>",
     "<U+A755>", "<U+A757>", "<U+A759>", "<U+A75B>", "<U+A75D>", "<U+A75F>",
     "<U+A761>", "<U+A763>", "<U+A765>", "<U+A767>", "<U+A769>", "<U+A76B>",
     "<U+A76D>", "<U+A76F>", "<U+A77A>", "<U+A77C>", "<U+A77F>", "<U+A781>",
     "<U+A783>", "<U+A785>", "<U+A787>", "<U+A78C>", "<U+A791>", "<U+A793>",
     "<U+A794>", "<U+A797>", "<U+A799>", "<U+A79B>", "<U+A79D>", "<U+A79F>",
     "<U+A7A1>", "<U+A7A3>", "<U+A7A5>", "<U+A7A7>", "<U+A7A9>", "<U+A7B5>",
     "<U+A7B7>", "<U+A7B9>", "<U+A7BB>", "<U+A7BD>", "<U+A7BF>", "<U+A7C1>",
     "<U+A7C3>", "<U+A7C8>", "<U+A7CA>", "<U+A7CD>", "<U+A7CF>", "<U+A7D1>",
     "<U+A7D3>", "<U+A7D5>", "<U+A7D7>", "<U+A7D9>", "<U+A7DB>", "<U+A7F6>",
     "<U+AB53>", "<U+AB70>", "<U+AB71>", "<U+AB72>", "<U+AB73>", "<U+AB74>",
     "<U+AB75>", "<U+AB76>", "<U+AB77>", "<U+AB78>", "<U+AB79>", "<U+AB7A>",
     "<U+AB7B>", "<U+AB7C>", "<U+AB7D>", "<U+AB7E>", "<U+AB7F>", "<U+AB80>",
     "<U+AB81>", "<U+AB82>", "<U+AB83>", "<U+AB84>", "<U+AB85>", "<U+AB86>",
     "<U+AB87>", "<U+AB88>", "<U+AB89>", "<U+AB8A>", "<U+AB8B>", "<U+AB8C>",
     "<U+AB8D>", "<U+AB8E>", "<U+AB8F>", "<U+AB90>", "<U+AB91>", "<U+AB92>",
     "<U+AB93>", "<U+AB94>", "<U+AB95>", "<U+AB96>", "<U+AB97>", "<U+AB98>",
     "<U+AB99>", "<U+AB9A>", "<U+AB9B>", "<U+AB9C>", "<U+AB9D>", "<U+AB9E>",
     "<U+AB9F>", "<U+ABA0>", "<U+ABA1>", "<U+ABA2>", "<U+ABA3>", "<U+ABA4>",
     "<U+ABA5>", "<U+ABA6>", "<U+ABA7>", "<U+ABA8>", "<U+ABA9>", "<U+ABAA>",
     "<U+ABAB>", "<U+ABAC>", "<U+ABAD>", "<U+ABAE>", "<U+ABAF>", "<U+ABB0>",
     "<U+ABB1>", "<U+ABB2>", "<U+ABB3>", "<U+ABB4>", "<U+ABB5>", "<U+ABB6>",
     "<U+ABB7>", "<U+ABB8>", "<U+ABB9>", "<U+ABBA>", "<U+ABBB>", "<U+ABBC>",
     "<U+ABBD>", "<U+ABBE>", "<U+ABBF>", "<U+FB00>", "<U+FB01>", "<U+FB02>",
     "<U+FB03>", "<U+FB04>", "<U+FB05>", "<U+FB06>", "<U+FB13>", "<U+FB14>",
     "<U+FB15>", "<U+FB16>", "<U+FB17>", "<U+FF41>", "<U+FF42>", "<U+FF43>",
     "<U+FF44>", "<U+FF45>", "<U+FF46>", "<U+FF47>", "<U+FF48>", "<U+FF49>",
     "<U+FF4A>", "<U+FF4B>", "<U+FF4C>", "<U+FF4D>", "<U+FF4E>", "<U+FF4F>",
     "<U+FF50>", "<U+FF51>", "<U+FF52>", "<U+FF53>", "<U+FF54>", "<U+FF55>",
     "<U+FF56>", "<U+FF57>", "<U+FF58>", "<U+FF59>", "<U+FF5A>"
  >>

OtherLowerToUpperSeq ==
  <<
     << "<U+039C>" >>, << "S", "S" >>, << "<U+00C0>" >>, << "<U+00C1>" >>,
     << "<U+00C2>" >>, << "<U+00C3>" >>, << "<U+00C4>" >>, << "<U+00C5>" >>,
     << "<U+00C6>" >>, << "<U+00C7>" >>, << "<U+00C8>" >>, << "<U+00C9>" >>,
     << "<U+00CA>" >>, << "<U+00CB>" >>, << "<U+00CC>" >>, << "<U+00CD>" >>,
     << "<U+00CE>" >>, << "<U+00CF>" >>, << "<U+00D0>" >>, << "<U+00D1>" >>,
     << "<U+00D2>" >>, << "<U+00D3>" >>, << "<U+00D4>" >>, << "<U+00D5>" >>,
     << "<U+00D6>" >>, << "<U+00D8>" >>, << "<U+00D9>" >>, << "<U+00DA>" >>,
     << "<U+00DB>" >>, << "<U+00DC>" >>, << "<U+00DD>" >>, << "<U+00DE>" >>,
     << "<U+0178>" >>, << "<U+0100>" >>, << "<U+0102>" >>, << "<U+0104>" >>,
     << "<U+0106>" >>, << "<U+0108>" >>, << "<U+010A>" >>, << "<U+010C>" >>,
     << "<U+010E>" >>, << "<U+0110>" >>, << "<U+0112>" >>, << "<U+0114>" >>,
     << "<U+0116>" >>, << "<U+0118>" >>, << "<U+011A>" >>, << "<U+011C>" >>,
     << "<U+011E>" >>, << "<U+0120>" >>, << "<U+0122>" >>, << "<U+0124>" >>,
     << "<U+0126>" >>, << "<U+0128>" >>, << "<U+012A>" >>, << "<U+012C>" >>,
     << "<U+012E>" >>, << "I" >>, << "<U+0132>" >>, << "<U+0134>" >>,
     << "<U+0136>" >>, << "<U+0139>" >>, << "<U+013B>" >>, << "<U+013D>" >>,
     << "<U+013F>" >>, << "<U+0141>" >>, << "<U+0143>" >>, << "<U+0145>" >>,
     << "<U+0147>" >>, << "<U+02BC>", "N" >>, << "<U+014A>" >>, << "<U+014C>" >>,
     << "<U+014E>" >>, << "<U+0150>" >>, << "<U+0152>" >>, << "<U+0154>" >>,
     << "<U+0156>" >>, << "<U+0158>" >>, << "<U+015A>" >>, << "<U+015C>" >>,
     << "<U+015E>" >>, << "<U+0160>" >>, << "<U+0162>" >>, << "<U+0164>" >>,
     << "<U+0166>" >>, << "<U+0168>" >>, << "<U+016A>" >>, << "<U+016C>" >>,
     << "<U+016E>" >>, << "<U+0170>" >>, << "<U+0172>" >>, << "<U+0174>" >>,
     << "<U+0176>" >>, << "<U+0179>" >>, << "<U+017B>" >>, << "<U+017D>" >>,
     << "S" >>, << "<U+0243>" >>, << "<U+0182>" >>, << "<U+0184>" >>,
     << "<U+0187>" >>, << "<U+018B>" >>, << "<U+0191>" >>, << "<U+01F6>" >>,
     << "<U+0198>" >>, << "<U+023D>" >>, << "<U+A7DC>" >>, << "<U+0220>" >>,
     << "<U+01A0>" >>, << "<U+01A2>" >>, << "<U+01A4>" >>, << "<U+01A7>" >>,
     << "<U+01AC>" >>, << "<U+01AF>" >>, << "<U+01B3>" >>, << "<U+01B5>" >>,
     << "<U+01B8>" >>, << "<U+01BC>" >>, << "<U+01F7>" >>, << "<U+01C4>" >>,
     << "<U+01C4>" >>, << "<U+01C7>" >>, << "<U+01C7>" >>, << "<U+01CA>" >>,
     << "<U+01CA>" >>, << "<U+01CD>" >>, << "<U+01CF>" >>, << "<U+01D1>" >>,
     << "<U+01D3>" >>, << "<U+01D5>" >>, << "<U+01D7>" >>, << "<U+01D9>" >>,
     << "<U+01DB>" >>, << "<U+018E>" >>, << "<U+01DE>" >>, << "<U+01E0>" >>,
     << "<U+01E2>" >>, << "<U+01E4>" >>, << "<U+01E6>" >>, << "<U+01E8>" >>,
     << "<U+01EA>" >>, << "<U+01EC>" >>, << "<U+01EE>" >>, << "J", "<U+030C>" >>,
     << "<U+01F1>" >>, << "<U+01F1>" >>, << "<U+01F4>" >>, << "<U+01F8>" >>,
     << "<U+01FA>" >>, << "<U+01FC>" >>, << "<U+01FE>" >>, << "<U+0200>" >>,
     << "<U+0202>" >>, << "<U+0204>" >>, << "<U+0206>" >>, << "<U+0208>" >>,
     << "<U+020A>" >>, << "<U+020C>" >>, << "<U+020E>" >>, << "<U+0210>" >>,
     << "<U+0212>" >>, << "<U+0214>" >>, << "<U+0216>" >>, << "<U+0218>" >>,
     << "<U+021A>" >>, << "<U+021C>" >>, << "<U+021E>" >>, << "<U+0222>" >>,
     << "<U+0224>" >>, << "<U+0226>" >>, << "<U+0228>" >>, << "<U+022A>" >>,
     << "<U+022C>" >>, << "<U+022E>" >>, << "<U+0230>" >>, << "<U+0232>" >>,
     << "<U+023B>" >>, << "<U+2C7E>" >>, << "<U+2C7F>" >>, << "<U+0241>" >>,
     << "<U+0246>" >>, << "<U+0248>" >>, << "<U+024A>" >>, << "<U+024C>" >>,
     << "<U+024E>" >>, << "<U+2C6F>" >>, << "<U+2C6D>" >>, << "<U+2C70>" >>,
     << "<U+0181>" >>, << "<U+0186>" >>, << "<U+0189>" >>, << "<U+018A>" >>,
     << "<U+018F>" >>, << "<U+0190>" >>, << "<U+A7AB>" >>, << "<U+0193>" >>,
     << "<U+A7AC>" >>, << "<U+0194>" >>, << "<U+A7CB>" >>, << "<U+A78D>" >>,
     << "<U+A7AA>" >>, << "<U+0197>" >>, << "<U+0196>" >>, << "<U+A7AE>" >>,
     << "<U+2C62>" >>, << "<U+A7AD>" >>, << "<U+019C>" >>, << "<U+2C6E>" >>,
     << "<U+019D>" >>, << "<U+019F>" >>, << "<U+2C64>" >>, << "<U+01A6>" >>,
     << "<U+A7C5>" >>, << "<U+01A9>" >>, << "<U+A7B1>" >>, << "<U+01AE>" >>,
     << "<U+0244>" >>, << "<U+01B1>" >>, << "<U+01B2>" >>, << "<U+0245>" >>,
     << "<U+01B7>" >>, << "<U+A7B2>" >>, << "<U+A7B0>" >>, << "<U+0399>" >>,
     << "<U+0370>" >>, << "<U+0372>" >>, << "<U+0376>" >>, << "<U+03FD>" >>,
     << "<U+03FE>" >>, << "<U+03FF>" >>, << "<U+0399>", "<U+0308>", "<U+0301>" >>, << "<U+0386>" >>,
     << "<U+0388>" >>, << "<U+0389>" >>, << "<U+038A>" >>, << "<U+03A5>", "<U+0308>", "<U+0301>" >>,
     << "<U+0391>" >>, << "<U+0392>" >>, << "<U+0393>" >>, << "<U+0394>" >>,
     << "<U+0395>" >>, << "<U+0396>" >>, << "<U+0397>" >>, << "<U+0398>" >>,
     << "<U+0399>" >>, << "<U+039A>" >>, << "<U+039B>" >>, << "<U+039C>" >>,
     << "<U+039D>" >>, << "<U+039E>" >>, << "<U+039F>" >>, << "<U+03A0>" >>,
     << "<U+03A1>" >>, << "<U+03A3>" >>, << "<U+03A3>" >>, << "<U+03A4>" >>,
     << "<U+03A5>" >>, << "<U+03A6>" >>, << "<U+03A7>" >>, << "<U+03A8>" >>,
     << "<U+03A9>" >>, << "<U+03AA>" >>, << "<U+03AB>" >>, << "<U+038C>" >>,
     << "<U+038E>" >>, << "<U+038F>" >>, << "<U+0392>" >>, << "<U+0398>" >>,
     << "<U+03A6>" >>, << "<U+03A0>" >>, << "<U+03CF>" >>, << "<U+03D8>" >>,
     << "<U+03DA>" >>, << "<U+03DC>" >>, << "<U+03DE>" >>, << "<U+03E0>" >>,
     << "<U+03E2>" >>, << "<U+03E4>" >>, << "<U+03E6>" >>, << "<U+03E8>" >>,
     << "<U+03EA>" >>, << "<U+03EC>" >>, << "<U+03EE>" >>, << "<U+039A>" >>,
     << "<U+03A1>" >>, << "<U+03F9>" >>, << "<U+037F>" >>, << "<U+0395>" >>,
     << "<U+03F7>" >>, << "<U+03FA>" >>, << "<U+0410>" >>, << "<U+0411>" >>,
     << "<U+0412>" >>, << "<U+0413>" >>, << "<U+0414>" >>, << "<U+0415>" >>,
     << "<U+0416>" >>, << "<U+0417>" >>, << "<U+0418>" >>, << "<U+0419>" >>,
     << "<U+041A>" >>, << "<U+041B>" >>, << "<U+041C>" >>, << "<U+041D>" >>,
     << "<U+041E>" >>, << "<U+041F>" >>, << "<U+0420>" >>, << "<U+0421>" >>,
     << "<U+0422>" >>, << "<U+0423>" >>, << "<U+0424>" >>, << "<U+0425>" >>,
     << "<U+0426>" >>, << "<U+0427>" >>, << "<U+0428>" >>, << "<U+0429>" >>,
     << "<U+042A>" >>, << "<U+042B>" >>, << "<U+042C>" >>, << "<U+042D>" >>,
     << "<U+042E>" >>, << "<U+042F>" >>, << "<U+0400>" >>, << "<U+0401>" >>,
     << "<U+0402>" >>, << "<U+0403>" >>, << "<U+0404>" >>, << "<U+0405>" >>,
     << "<U+0406>" >>, << "<U+0407>" >>, << "<U+0408>" >>, << "<U+0409>" >>,
     << "<U+040A>" >>, << "<U+040B>" >>, << "<U+040C>" >>, << "<U+040D>" >>,
     << "<U+040E>" >>, << "<U+040F>" >>, << "<U+0460>" >>, << "<U+0462>" >>,
     << "<U+0464>" >>, << "<U+0466>" >>, << "<U+0468>" >>, << "<U+046A>" >>,
     << "<U+046C>" >>, << "<U+046E>" >>, << "<U+0470>" >>, << "<U+0472>" >>,
     << "<U+0474>" >>, << "<U+0476>" >>, << "<U+0478>" >>, << "<U+047A>" >>,
     << "<U+047C>" >>, << "<U+047E>" >>, << "<U+0480>" >>, << "<U+048A>" >>,
     << "<U+048C>" >>, << "<U+048E>" >>, << "<U+0490>" >>, << "<U+0492>" >>,
     << "<U+0494>" >>, << "<U+0496>" >>, << "<U+0498>" >>, << "<U+049A>" >>,
     << "<U+049C>" >>, << "<U+049E>" >>, << "<U+04A0>" >>, << "<U+04A2>" >>,
     << "<U+04A4>" >>, << "<U+04A6>" >>, << "<U+04A8>" >>, << "<U+04AA>" >>,
     << "<U+04AC>" >>, << "<U+04AE>" >>, << "<U+04B0>" >>, << "<U+04B2>" >>,
     << "<U+04B4>" >>, << "<U+04B6>" >>, << "<U+04B8>" >>, << "<U+04BA>" >>,
     << "<U+04BC>" >>, << "<U+04BE>" >>, << "<U+04C1>" >>, << "<U+04C3>" >>,
     << "<U+04C5>" >>, << "<U+04C7>" >>, << "<U+04C9>" >>, << "<U+04CB>" >>,
     << "<U+04CD>" >>, << "<U+04C0>" >>, << "<U+04D0>" >>, << "<U+04D2>" >>,
     << "<U+04D4>" >>, << "<U+04D6>" >>, << "<U+04D8>" >>, << "<U+04DA>" >>,
     << "<U+04DC>" >>, << "<U+04DE>" >>, << "<U+04E0>" >>, << "<U+04E2>" >>,
     << "<U+04E4>" >>, << "<U+04E6>" >>, << "<U+04E8>" >>, << "<U+04EA>" >>,
     << "<U+04EC>" >>, << "<U+04EE>" >>, << "<U+04F0>" >>, << "<U+04F2>" >>,
     << "<U+04F4>" >>, << "<U+04F6>" >>, << "<U+04F8>" >>, << "<U+04FA>" >>,
     << "<U+04FC>" >>, << "<U+04FE>" >>, << "<U+0500>" >>, << "<U+0502>" >>,
     << "<U+0504>" >>, << "<U+0506>" >>, << "<U+0508>" >>, << "<U+050A>" >>,
     << "<U+050C>" >>, << "<U+050E>" >>, << "<U+0510>" >>, << "<U+0512>" >>,
     << "<U+0514>" >>, << "<U+0516>" >>, << "<U+0518>" >>, << "<U+051A>" >>,
     << "<U+051C>" >>, << "<U+051E>" >>, << "<U+0520>" >>, << "<U+0522>" >>,
     << "<U+0524>" >>, << "<U+0526>" >>, << "<U+0528>" >>, << "<U+052A>" >>,
     << "<U+052C>" >>, << "<U+052E>" >>, << "<U+0531>" >>, << "<U+0532>" >>,
     << "<U+0533>" >>, << "<U+0534>" >>, << "<U+0535>" >>, << "<U+0536>" >>,
     << "<U+0537>" >>, << "<U+0538>" >>, << "<U+0539>" >>, << "<U+053A>" >>,
     << "<U+053B>" >>, << "<U+053C>" >>, << "<U+053D>" >>, << "<U+053E>" >>,
     << "<U+053F>" >>, << "<U+0540>" >>, << "<U+0541>" >>, << "<U+0542>" >>,
     << "<U+0543>" >>, << "<U+0544>" >>, << "<U+0545>" >>, << "<U+0546>" >>,
     << "<U+0547>" >>, << "<U+0548>" >>, << "<U+0549>" >>, << "<U+054A>" >>,
     << "<U+054B>" >>, << "<U+054C>" >>, << "<U+054D>" >>, << "<U+054E>" >>,
     << "<U+054F>" >>, << "<U+0550>" >>, << "<U+0551>" >>, << "<U+0552>" >>,
     << "<U+0553>" >>, << "<U+0554>" >>, << "<U+0555>" >>, << "<U+0556>" >>,
     << "<U+0535>", "<U+0552>" >>, << "<U+1C90>" >>, << "<U+1C91>" >>, << "<U+1C92>" >>,
     << "<U+1C93>" >>, << "<U+1C94>" >>, << "<U+1C95>" >>, << "<U+1C96>" >>,
     << "<U+1C97>" >>, << "<U+1C98>" >>, << "<U+1C99>" >>, << "<U+1C9A>" >>,
     << "<U+1C9B>" >>, << "<U+1C9C>" >>, << "<U+1C9D>" >>, << "<U+1C9E>" >>,
     << "<U+1C9F>" >>, << "<U+1CA0>" >>, << "<U+1CA1>" >>, << "<U+1CA2>" >>,
     << "<U+1CA3>" >>, << "<U+1CA4>" >>, << "<U+1CA5>" >>, << "<U+1CA6>" >>,
     << "<U+1CA7>" >>, << "<U+1CA8>" >>, << "<U+1CA9>" >>, << "<U+1CAA>" >>,
     << "<U+1CAB>" >>, << "<U+1CAC>" >>, << "<U+1CAD>" >>, << "<U+1CAE>" >>,
     << "<U+1CAF>" >>, << "<U+1CB0>" >>, << "<U+1CB1>" >>, << "<U+1CB2>" >>,
     << "<U+1CB3>" >>, << "<U+1CB4>" >>, << "<U+1CB5>" >>, << "<U+1CB6>" >>,
     << "<U+1CB7>" >>, << "<U+1CB8>" >>, << "<U+1CB9>" >>, << "<U+1CBA>" >>,
     << "<U+1CBD>" >>, << "<U+1CBE>" >>, << "<U+1CBF>" >>, << "<U+13F0>" >>,
     << "<U+13F1>" >>, << "<U+13F2>" >>, << "<U+13F3>" >>, << "<U+13F4>" >>,
     << "<U+13F5>" >>, << "<U+0412>" >>, << "<U+0414>" >>, << "<U+041E>" >>,
     << "<U+0421>" >>, << "<U+0422>" >>, << "<U+0422>" >>, << "<U+042A>" >>,
     << "<U+0462>" >>, << "<U+A64A>" >>, << "<U+1C89>" >>, << "<U+A77D>" >>,
     << "<U+2C63>" >>, << "<U+A7C6>" >>, << "<U+1E00>" >>, << "<U+1E02>" >>,
     << "<U+1E04>" >>, << "<U+1E06>" >>, << "<U+1E08>" >>, << "<U+1E0A>" >>,
     << "<U+1E0C>" >>, << "<U+1E0E>" >>, << "<U+1E10>" >>, << "<U+1E12>" >>,
     << "<U+1E14>" >>, << "<U+1E16>" >>, << "<U+1E18>" >>, << "<U+1E1A>" >>,
     << "<U+1E1C>" >>, << "<U+1E1E>" >>, << "<U+1E20>" >>, << "<U+1E22>" >>,
     << "<U+1E24>" >>, << "<U+1E26>" >>, << "<U+1E28>" >>, << "<U+1E2A>" >>,
     << "<U+1E2C>" >>, << "<U+1E2E>" >>, << "<U+1E30>" >>, << "<U+1E32>" >>,
     << "<U+1E34>" >>, << "<U+1E36>" >>, << "<U+1E38>" >>, << "<U+1E3A>" >>,
     << "<U+1E3C>" >>, << "<U+1E3E>" >>, << "<U+1E40>" >>, << "<U+1E42>" >>,
     << "<U+1E44>" >>, << "<U+1E46>" >>, << "<U+1E48>" >>, << "<U+1E4A>" >>,
     << "<U+1E4C>" >>, << "<U+1E4E>" >>, << "<U+1E50>" >>, << "<U+1E52>" >>,
     << "<U+1E54>" >>, << "<U+1E56>" >>, << "<U+1E58>" >>, << "<U+1E5A>" >>,
     << "<U+1E5C>" >>, << "<U+1E5E>" >>, << "<U+1E60>" >>, << "<U+1E62>" >>,
     << "<U+1E64>" >>, << "<U+1E66>" >>, << "<U+1E68>" >>, << "<U+1E6A>" >>,
     << "<U+1E6C>" >>, << "<U+1E6E>" >>, << "<U+1E70>" >>, << "<U+1E72>" >>,
     << "<U+1E74>" >>, << "<U+1E76>" >>, << "<U+1E78>" >>, << "<U+1E7A>" >>,
     << "<U+1E7C>" >>, << "<U+1E7E>" >>, << "<U+1E80>" >>, << "<U+1E82>" >>,
     << "<U+1E84>" >>, << "<U+1E86>" >>, << "<U+1E88>" >>, << "<U+1E8A>" >>,
     << "<U+1E8C>" >>, << "<U+1E8E>" >>, << "<U+1E90>" >>, << "<U+1E92>" >>,
     << "<U+1E94>" >>, << "H", "<U+0331>" >>, << "T", "<U+0308>" >>, << "W", "<U+030A>" >>,
     << "Y", "<U+030A>" >>, << "A", "<U+02BE>" >>, << "<U+1E60>" >>, << "<U+1EA0>" >>,
     << "<U+1EA2>" >>, << "<U+1EA4>" >>, << "<U+1EA6>" >>, << "<U+1EA8>" >>,
     << "<U+1EAA>" >>, << "<U+1EAC>" >>, << "<U+1EAE>" >>, << "<U+1EB0>" >>,
     << "<U+1EB2>" >>, << "<U+1EB4>" >>, << "<U+1EB6>" >>, << "<U+1EB8>" >>,
     << "<U+1EBA>" >>, << "<U+1EBC>" >>, << "<U+1EBE>" >>, << "<U+1EC0>" >>,
     << "<U+1EC2>" >>, << "<U+1EC4>" >>, << "<U+1EC6>" >>, << "<U+1EC8>" >>,
     << "<U+1ECA>" >>, << "<U+1ECC>" >>, << "<U+1ECE>" >>, << "<U+1ED0>" >>,
     << "<U+1ED2>" >>, << "<U+1ED4>" >>, << "<U+1ED6>" >>, << "<U+1ED8>" >>,
     << "<U+1EDA>" >>, << "<U+1EDC>" >>, << "<U+1EDE>" >>, << "<U+1EE0>" >>,
     << "<U+1EE2>" >>, << "<U+1EE4>" >>, << "<U+1EE6>" >>, << "<U+1EE8>" >>,
     << "<U+1EEA>" >>, << "<U+1EEC>" >>, << "<U+1EEE>" >>, << "<U+1EF0>" >>,
     << "<U+1EF2>" >>, << "<U+1EF4>" >>, << "<U+1EF6>" >>, << "<U+1EF8>" >>,
     << "<U+1EFA>" >>, << "<U+1EFC>" >>, << "<U+1EFE>" >>, << "<U+1F08>" >>,
     << "<U+1F09>" >>, << "<U+1F0A>" >>, << "<U+1F0B>" >>, << "<U+1F0C>" >>,
     << "<U+1F0D>" >>, << "<U+1F0E>" >>, << "<U+1F0F>" >>, << "<U+1F18>" >>,
     << "<U+1F19>" >>, << "<U+1F1A>" >>, << "<U+1F1B>" >>, << "<U+1F1C>" >>,
     << "<U+1F1D>" >>, << "<U+1F28>" >>, << "<U+1F29>" >>, << "<U+1F2A>" >>,
     << "<U+1F2B>" >>, << "<U+1F2C>" >>, << "<U+1F2D>" >>, << "<U+1F2E>" >>,
     << "<U+1F2F>" >>, << "<U+1F38>" >>, << "<U+1F39>" >>, << "<U+1F3A>" >>,
     << "<U+1F3B>" >>, << "<U+1F3C>" >>, << "<U+1F3D>" >>, << "<U+1F3E>" >>,
     << "<U+1F3F>" >>, << "<U+1F48>" >>, << "<U+1F49>" >>, << "<U+1F4A>" >>,
     << "<U+1F4B>" >>, << "<U+1F4C>" >>, << "<U+1F4D>" >>, << "<U+03A5>", "<U+0313>" >>,
     << "<U+1F59>" >>, << "<U+03A5>", "<U+0313>", "<U+0300>" >>, << "<U+1F5B>" >>, << "<U+03A5>", "<U+0313>", "<U+0301>" >>,
     << "<U+1F5D>" >>, << "<U+03A5>", "<U+0313>", "<U+0342>" >>, << "<U+1F5F>" >>, << "<U+1F68>" >>,
     << "<U+1F69>" >>, << "<U+1F6A>" >>, << "<U+1F6B>" >>, << "<U+1F6C>" >>,
     << "<U+1F6D>" >>, << "<U+1F6E>" >>, << "<U+1F6F>" >>, << "<U+1FBA>" >>,
     << "<U+1FBB>" >>, << "<U+1FC8>" >>, << "<U+1FC9>" >>, << "<U+1FCA>" >>,
     << "<U+1FCB>" >>, << "<U+1FDA>" >>, << "<U+1FDB>" >>, << "<U+1FF8>" >>,
     << "<U+1FF9>" >>, << "<U+1FEA>" >>, << "<U+1FEB>" >>, << "<U+1FFA>" >>,
     << "<U+1FFB>" >>, << "<U+1F08>", "<U+0399>" >>, << "<U+1F09>", "<U+0399>" >>, << "<U+1F0A>", "<U+0399>" >>,
     << "<U+1F0B>", "<U+0399>" >>, << "<U+1F0C>", "<U+0399>" >>, << "<U+1F0D>", "<U+0399>" >>, << "<U+1F0E>", "<U+0399>" >>,
     << "<U+1F0F>", "<U+0399>" >>, << "<U+1F08>", "<U+0399>" >>, << "<U+1F09>", "<U+0399>" >>, << "<U+1F0A>", "<U+0399>" >>,
     << "<U+1F0B>", "<U+0399>" >>, << "<U+1F0C>", "<U+0399>" >>, << "<U+1F0D>", "<U+0399>" >>, << "<U+1F0E>", "<U+0399>" >>,
     << "<U+1F0F>", "<U+0399>" >>, << "<U+1F28>", "<U+0399>" >>, << "<U+1F29>", "<U+0399>" >>, << "<U+1F2A>", "<U+0399>" >>,
     << "<U+1F2B>", "<U+0399>" >>, << "<U+1F2C>", "<U+0399>" >>, << "<U+1F2D>", "<U+0399>" >>, << "<U+1F2E>", "<U+0399>" >>,
     << "<U+1F2F>", "<U+0399>" >>, << "<U+1F28>", "<U+0399>" >>, << "<U+1F29>", "<U+0399>" >>, << "<U+1F2A>", "<U+0399>" >>,
     << "<U+1F2B>", "<U+0399>" >>, << "<U+1F2C>", "<U+0399>" >>, << "<U+1F2D>", "<U+0399>" >>, << "<U+1F2E>", "<U+0399>" >>,
     << "<U+1F2F>", "<U+0399>" >>, << "<U+1F68>", "<U+0399>" >>, << "<U+1F69>", "<U+0399>" >>, << "<U+1F6A>", "<U+0399>" >>,
     << "<U+1F6B>", "<U+0399>" >>, << "<U+1F6C>", "<U+0399>" >>, << "<U+1F6D>", "<U+0399>" >>, << "<U+1F6E>", "<U+0399>" >>,
     << "<U+1F6F>", "<U+0399>" >>, << "<U+1F68>", "<U+0399>" >>, << "<U+1F69>", "<U+0399>" >>, << "<U+1F6A>", "<U+0399>" >>,
     << "<U+1F6B>", "<U+0399>" >>, << "<U+1F6C>", "<U+0399>" >>, << "<U+1F6D>", "<U+0399>" >>, << "<U+1F6E>", "<U+0399>" >>,
     << "<U+1F6F>", "<U+0399>" >>, << "<U+1FB8>" >>, << "<U+1FB9>" >>, << "<U+1FBA>", "<U+0399>" >>,
     << "<U+0391>", "<U+0399>" >>, << "<U+0386>", "<U+0399>" >>, << "<U+0391>", "<U+0342>" >>, << "<U+0391>", "<U+0342>", "<U+0399>" >>,
     << "<U+0391>", "<U+0399>" >>, << "<U+0399>" >>, << "<U+1FCA>", "<U+0399>" >>, << "<U+0397>", "<U+0399>" >>,
     << "<U+0389>", "<U+0399>" >>, << "<U+0397>", "<U+0342>" >>, << "<U+0397>", "<U+0342>", "<U+0399>" >>, << "<U+0397>", "<U+0399>" >>,
     << "<U+1FD8>" >>, << "<U+1FD9>" >>, << "<U+0399>", "<U+0308>", "<U+0300>" >>, << "<U+0399>", "<U+0308>", "<U+0301>" >>,
     << "<U+0399>", "<U+0342>" >>, << "<U+0399>", "<U+0308>", "<U+0342>" >>, << "<U+1FE8>" >>, << "<U+1FE9>" >>,
     << "<U+03A5>", "<U+0308>", "<U+0300>" >>, << "<U+03A5>", "<U+0308>", "<U+0301>" >>, << "<U+03A1>", "<U+0313>" >>, << "<U+1FEC>" >>,
     << "<U+03A5>", "<U+0342>" >>, << "<U+03A5>", "<U+0308>", "<U+0342>" >>, << "<U+1FFA>", "<U+0399>" >>, << "<U+03A9>", "<U+0399>" >>,
     << "<U+038F>", "<U+0399>" >>, << "<U+03A9>", "<U+0342>" >>, << "<U+03A9>", "<U+0342>", "<U+0399>" >>, << "<U+03A9>", "<U+0399>" >>,
     << "<U+2132>" >>, << "<U+2160>" >>, << "<U+2161>" >>, << "<U+2162>" >>,
     << "<U+2163>" >>, << "<U+2164>" >>, << "<U+2165>" >>, << "<U+2166>" >>,
     << "<U+2167>" >>, << "<U+2168>" >>, << "<U+2169>" >>, << "<U+216A>" >>,
     << "<U+216B>" >>, << "<U+216C>" >>, << "<U+216D>" >>, << "<U+216E>" >>,
     << "<U+216F>" >>, << "<U+2183>" >>, << "<U+24B6>" >>, << "<U+24B7>" >>,
     << "<U+24B8>" >>, << "<U+24B9>" >>, << "<U+24BA>" >>, << "<U+24BB>" >>,
     << "<U+24BC>" >>, << "<U+24BD>" >>, << "<U+24BE>" >>, << "<U+24BF>" >>,
     << "<U+24C0>" >>, << "<U+24C1>" >>, << "<U+24C2>" >>, << "<U+24C3>" >>,
     << "<U+24C4>" >>, << "<U+24C5>" >>, << "<U+24C6>" >>, << "<U+24C7>" >>,
     << "<U+24C8>" >>, << "<U+24C9>" >>, << "<U+24CA>" >>, << "<U+24CB>" >>,
     << "<U+24CC>" >>, << "<U+24CD>" >>, << "<U+24CE>" >>, << "<U+24CF>" >>,
     << "<U+2C00>" >>, << "<U+2C01>" >>, << "<U+2C02>" >>, << "<U+2C03>" >>,
     << "<U+2C04>" >>, << "<U+2C05>" >>, << "<U+2C06>" >>, << "<U+2C07>" >>,
     << "<U+2C08>" >>, << "<U+2C09>" >>, << "<U+2C0A>" >>, << "<U+2C0B>" >>,
     << "<U+2C0C>" >>, << "<U+2C0D>" >>, << "<U+2C0E>" >>, << "<U+2C0F>" >>,
     << "<U+2C10>" >>, << "<U+2C11>" >>, << "<U+2C12>" >>, << "<U+2C13>" >>,
     << "<U+2C14>" >>, << "<U+2C15>" >>, << "<U+2C16>" >>, << "<U+2C17>" >>,
     << "<U+2C18>" >>, << "<U+2C19>" >>, << "<U+2C1A>" >>, << "<U+2C1B>" >>,
     << "<U+2C1C>" >>, << "<U+2C1D>" >>, << "<U+2C1E>" >>, << "<U+2C1F>" >>,
     << "<U+2C20>" >>, << "<U+2C21>" >>, << "<U+2C22>" >>, << "<U+2C23>" >>,
     << "<U+2C24>" >>, << "<U+2C25>" >>, << "<U+2C26>" >>, << "<U+2C27>" >>,
     << "<U+2C28>" >>, << "<U+2C29>" >>, << "<U+2C2A>" >>, << "<U+2C2B>" >>,
     << "<U+2C2C>" >>, << "<U+2C2D>" >>, << "<U+2C2E>" >>, << "<U+2C2F>" >>,
     << "<U+2C60>" >>, << "<U+023A>" >>, << "<U+023E>" >>, << "<U+2C67>" >>,
     << "<U+2C69>" >>, << "<U+2C6B>" >>, << "<U+2C72>" >>, << "<U+2C75>" >>,
     << "<U+2C80>" >>, << "<U+2C82>" >>, << "<U+2C84>" >>, << "<U+2C86>" >>,
     << "<U+2C88>" >>, << "<U+2C8A>" >>, << "<U+2C8C>" >>, << "<U+2C8E>" >>,
     << "<U+2C90>" >>, << "<U+2C92>" >>, << "<U+2C94>" >>, << "<U+2C96>" >>,
     << "<U+2C98>" >>, << "<U+2C9A>" >>, << "<U+2C9C>" >>, << "<U+2C9E>" >>,
     << "<U+2CA0>" >>, << "<U+2CA2>" >>, << "<U+2CA4>" >>, << "<U+2CA6>" >>,
     << "<U+2CA8>" >>, << "<U+2CAA>" >>, << "<U+2CAC>" >>, << "<U+2CAE>" >>,
     << "<U+2CB0>" >>, << "<U+2CB2>" >>, << "<U+2CB4>" >>, << "<U+2CB6>" >>,
     << "<U+2CB8>" >>, << "<U+2CBA>" >>, << "<U+2CBC>" >>, << "<U+2CBE>" >>,
     << "<U+2CC0>" >>, << "<U+2CC2>" >>, << "<U+2CC4>" >>, << "<U+2CC6>" >>,
     << "<U+2CC8>" >>, << "<U+2CCA>" >>, << "<U+2CCC>" >>, << "<U+2CCE>" >>,
     << "<U+2CD0>" >>, << "<U+2CD2>" >>, << "<U+2CD4>" >>, << "<U+2CD6>" >>,
     << "<U+2CD8>" >>, << "<U+2CDA>" >>, << "<U+2CDC>" >>, << "<U+2CDE>" >>,
     << "<U+2CE0>" >>, << "<U+2CE2>" >>, << "<U+2CEB>" >>, << "<U+2CED>" >>,
     << "<U+2CF2>" >>, << "<U+10A0>" >>, << "<U+10A1>" >>, << "<U+10A2>" >>,
     << "<U+10A3>" >>, << "<U+10A4>" >>, << "<U+10A5>" >>, << "<U+10A6>" >>,
     << "<U+10A7>" >>, << "<U+10A8>" >>, << "<U+10A9>" >>, << "<U+10AA>" >>,
     << "<U+10AB>" >>, << "<U+10AC>" >>, << "<U+10AD>" >>, << "<U+10AE>" >>,
     << "<U+10AF>" >>, << "<U+10B0>" >>, << "<U+10B1>" >>, << "<U+10B2>" >>,
     << "<U+10B3>" >>, << "<U+10B4>" >>, << "<U+10B5>" >>, << "<U+10B6>" >>,
     << "<U+10B7>" >>, << "<U+10B8>" >>, << "<U+10B9>" >>, << "<U+10BA>" >>,
     << "<U+10BB>" >>, << "<U+10BC>" >>, << "<U+10BD>" >>, << "<U+10BE>" >>,
     << "<U+10BF>" >>, << "<U+10C0>" >>, << "<U+10C1>" >>, << "<U+10C2>" >>,
     << "<U+10C3>" >>, << "<U+10C4>" >>, << "<U+10C5>" >>, << "<U+10C7>" >>,
     << "<U+10CD>" >>, << "<U+A640>" >>, << "<U+A642>" >>, << "<U+A644>" >>,
     << "<U+A646>" >>, << "<U+A648>" >>, << "<U+A64A>" >>, << "<U+A64C>" >>,
     << "<U+A64E>" >>, << "<U+A650>" >>, << "<U+A652>" >>, << "<U+A654>" >>,
     << "<U+A656>" >>, << "<U+A658>" >>, << "<U+A65A>" >>, << "<U+A65C>" >>,
     << "<U+A65E>" >>, << "<U+A660>" >>, << "<U+A662>" >>, << "<U+A664>" >>,
     << "<U+A666>" >>, << "<U+A668>" >>, << "<U+A66A>" >>, << "<U+A66C>" >>,
     << "<U+A680>" >>, << "<U+A682>" >>, << "<U+A684>" >>, << "<U+A686>" >>,
     << "<U+A688>" >>, << "<U+A68A>" >>, << "<U+A68C>" >>, << "<U+A68E>" >>,
     << "<U+A690>" >>, << "<U+A692>" >>, << "<U+A694>" >>, << "<U+A696>" >>,
     << "<U+A698>" >>, << "<U+A69A>" >>, << "<U+A722>" >>, << "<U+A724>" >>,
     << "<U+A726>" >>, << "<U+A728>" >>, << "<U+A72A>" >>, << "<U+A72C>" >>,
     << "<U+A72E>" >>, << "<U+A732>" >>, << "<U+A734>" >>, << "<U+A736>" >>,
     << "<U+A738>" >>, << "<U+A73A>" >>, << "<U+A73C>" >>, << "<U+A73E>" >>,
     << "<U+A740>" >>, << "<U+A742>" >>, << "<U+A744>" >>, << "<U+A746>" >>,
     << "<U+A748>" >>, << "<U+A74A>" >>, << "<U+A74C>" >>, << "<U+A74E>" >>,
     << "<U+A750>" >>, << "<U+A752>" >>, << "<U+A754>" >>, << "<U+A756>" >>,
     << "<U+A758>" >>, << "<U+A75A>" >>, << "<U+A75C>" >>, << "<U+A75E>" >>,
     << "<U+A760>" >>, << "<U+A762>" >>, << "<U+A764>" >>, << "<U+A766>" >>,
     << "<U+A768>" >>, << "<U+A76A>" >>, << "<U+A76C>" >>, << "<U+A76E>" >>,
     << "<U+A779>" >>, << "<U+A77B>" >>, << "<U+A77E>" >>, << "<U+A780>" >>,
     << "<U+A782>" >>, << "<U+A784>" >>, << "<U+A786>" >>, << "<U+A78B>" >>,
     << "<U+A790>" >>, << "<U+A792>" >>, << "<U+A7C4>" >>, << "<U+A796>" >>,
     << "<U+A798>" >>, << "<U+A79A>" >>, << "<U+A79C>" >>, << "<U+A79E>" >>,
     << "<U+A7A0>" >>, << "<U+A7A2>" >>, << "<U+A7A4>" >>, << "<U+A7A6>" >>,
     << "<U+A7A8>" >>, << "<U+A7B4>" >>, << "<U+A7B6>" >>, << "<U+A7B8>" >>,
     << "<U+A7BA>" >>, << "<U+A7BC>" >>, << "<U+A7BE>" >>, << "<U+A7C0>" >>,
     << "<U+A7C2>" >>, << "<U+A7C7>" >>, << "<U+A7C9>" >>, << "<U+A7CC>" >>,
     << "<U+A7CE>" >>, << "<U+A7D0>" >>, << "<U+A7D2>" >>, << "<U+A7D4>" >>,
     << "<U+A7D6>" >>, << "<U+A7D8>" >>, << "<U+A7DA>" >>, << "<U+A7F5>" >>,
     << "<U+A7B3>" >>, << "<U+13A0>" >>, << "<U+13A1>" >>, << "<U+13A2>" >>,
     << "<U+13A3>" >>, << "<U+13A4>" >>, << "<U+13A5>" >>, << "<U+13A6>" >>,
     << "<U+13A7>" >>, << "<U+13A8>" >>, << "<U+13A9>" >>, << "<U+13AA>" >>,
     << "<U+13AB>" >>, << "<U+13AC>" >>, << "<U+13AD>" >>, << "<U+13AE>" >>,
     << "<U+13AF>" >>, << "<U+13B0>" >>, << "<U+13B1>" >>, << "<U+13B2>" >>,
     << "<U+13B3>" >>, << "<U+13B4>" >>, << "<U+13B5>" >>, << "<U+13B6>" >>,
     << "<U+13B7>" >>, << "<U+13B8>" >>, << "<U+13B9>" >>, << "<U+13BA>" >>,
     << "<U+13BB>" >>, << "<U+13BC>" >>, << "<U+13BD>" >>, << "<U+13BE>" >>,
     << "<U+13BF>" >>, << "<U+13C0>" >>, << "<U+13C1>" >>, << "<U+13C2>" >>,
     << "<U+13C3>" >>, << "<U+13C4>" >>, << "<U+13C5>" >>, << "<U+13C6>" >>,
     << "<U+13C7>" >>, << "<U+13C8>" >>, << "<U+13C9>" >>, << "<U+13CA>" >>,
     << "<U+13CB>" >>, << "<U+13CC>" >>, << "<U+13CD>" >>, << "<U+13CE>" >>,
     << "<U+13CF>" >>, << "<U+13D0>" >>, << "<U+13D1>" >>, << "<U+13D2>" >>,
     << "<U+13D3>" >>, << "<U+13D4>" >>, << "<U+13D5>" >>, << "<U+13D6>" >>,
     << "<U+13D7>" >>, << "<U+13D8>" >>, << "<U+13D9>" >>, << "<U+13DA>" >>,
     << "<U+13DB>" >>, << "<U+13DC>" >>, << "<U+13DD>" >>, << "<U+13DE>" >>,
     << "<U+13DF>" >>, << "<U+13E0>" >>, << "<U+13E1>" >>, << "<U+13E2>" >>,
     << "<U+13E3>" >>, << "<U+13E4>" >>, << "<U+13E5>" >>, << "<U+13E6>" >>,
     << "<U+13E7>" >>, << "<U+13E8>" >>, << "<U+13E9>" >>, << "<U+13EA>" >>,
     << "<U+13EB>" >>, << "<U+13EC>" >>, << "<U+13ED>" >>, << "<U+13EE>" >>,
     << "<U+13EF>" >>, << "F", "F" >>, << "F", "I" >>, << "F", "L" >>,
     << "F", "F", "I" >>, << "F", "F", "L" >>, << "S", "T" >>, << "S", "T" >>,
     << "<U+0544>", "<U+0546>" >>, << "<U+0544>", "<U+0535>" >>, << "<U+0544>", "<U+053B>" >>, << "<U+054E>", "<U+0546>" >>,
     << "<U+0544>", "<U+053D>" >>, << "<U+FF21>" >>, << "<U+FF22>" >>, << "<U+FF23>" >>,
     << "<U+FF24>" >>, << "<U+FF25>" >>, << "<U+FF26>" >>, << "<U+FF27>" >>,
     << "<U+FF28>" >>, << "<U+FF29>" >>, << "<U+FF2A>" >>, << "<U+FF2B>" >>,
     << "<U+FF2C>" >>, << "<U+FF2D>" >>, << "<U+FF2E>" >>, << "<U+FF2F>" >>,
     << "<U+FF30>" >>, << "<U+FF31>" >>, << "<U+FF32>" >>, << "<U+FF33>" >>,
     << "<U+FF34>" >>, << "<U+FF35>" >>, << "<U+FF36>" >>, << "<U+FF37>" >>,
     << "<U+FF38>" >>, << "<U+FF39>" >>, << "<U+FF3A>" >>
  >>

PairToUpper ==
  {
    << "<U+D801>", "<U+DC28>", "<U+DC00>" >>, << "<U+D801>", "<U+DC29>", "<U+DC01>" >>,
    << "<U+D801>", "<U+DC2A>", "<U+DC02>" >>, << "<U+D801>", "<U+DC2B>", "<U+DC03>" >>,
    << "<U+D801>", "<U+DC2C>", "<U+DC04>" >>, << "<U+D801>", "<U+DC2D>", "<U+DC05>" >>,
    << "<U+D801>", "<U+DC2E>", "<U+DC06>" >>, << "<U+D801>", "<U+DC2F>", "<U+DC07>" >>,
    << "<U+D801>", "<U+DC30>", "<U+DC08>" >>, << "<U+D801>", "<U+DC31>", "<U+DC09>" >>,
    << "<U+D801>", "<U+DC32>", "<U+DC0A>" >>, << "<U+D801>", "<U+DC33>", "<U+DC0B>" >>,
    << "<U+D801>", "<U+DC34>", "<U+DC0C>" >>, << "<U+D801>", "<U+DC35>", "<U+DC0D>" >>,
    << "<U+D801>", "<U+DC36>", "<U+DC0E>" >>, << "<U+D801>", "<U+DC37>", "<U+DC0F>" >>,
    << "<U+D801>", "<U+DC38>", "<U+DC10>" >>, << "<U+D801>", "<U+DC39>", "<U+DC11>" >>,
    << "<U+D801>", "<U+DC3A>", "<U+DC12>" >>, << "<U+D801>", "<U+DC3B>", "<U+DC13>" >>,
    << "<U+D801>", "<U+DC3C>", "<U+DC14>" >>, << "<U+D801>", "<U+DC3D>", "<U+DC15>" >>,
    << "<U+D801>", "<U+DC3E>", "<U+DC16>" >>, << "<U+D801>", "<U+DC3F>", "<U+DC17>" >>,
    << "<U+D801>", "<U+DC40>", "<U+DC18>" >>, << "<U+D801>", "<U+DC41>", "<U+DC19>" >>,
    << "<U+D801>", "<U+DC42>", "<U+DC1A>" >>, << "<U+D801>", "<U+DC43>", "<U+DC1B>" >>,
    << "<U+D801>", "<U+DC44>", "<U+DC1C>" >>, << "<U+D801>", "<U+DC45>", "<U+DC1D>" >>,
    << "<U+D801>", "<U+DC46>", "<U+DC1E>" >>, << "<U+D801>", "<U+DC47>", "<U+DC1F>" >>,
    << "<U+D801>", "<U+DC48>", "<U+DC20>" >>, << "<U+D801>", "<U+DC49>", "<U+DC21>" >>,
    << "<U+D801>", "<U+DC4A>", "<U+DC22>" >>, << "<U+D801>", "<U+DC4B>", "<U+DC23>" >>,
    << "<U+D801>", "<U+DC4C>", "<U+DC24>" >>, << "<U+D801>", "<U+DC4D>", "<U+DC25>" >>,
    << "<U+D801>", "<U+DC4E>", "<U+DC26>" >>, << "<U+D801>", "<U+DC4F>", "<U+DC27>" >>,
    << "<U+D801>", "<U+DCD8>", "<U+DCB0>" >>, << "<U+D801>", "<U+DCD9>", "<U+DCB1>" >>,
    << "<U+D801>", "<U+DCDA>", "<U+DCB2>" >>, << "<U+D801>", "<U+DCDB>", "<U+DCB3>" >>,
    << "<U+D801>", "<U+DCDC>", "<U+DCB4>" >>, << "<U+D801>", "<U+DCDD>", "<U+DCB5>" >>,
    << "<U+D801>", "<U+DCDE>", "<U+DCB6>" >>, << "<U+D801>", "<U+DCDF>", "<U+DCB7>" >>,
    << "<U+D801>", "<U+DCE0>", "<U+DCB8>" >>, << "<U+D801>", "<U+DCE1>", "<U+DCB9>" >>,
    << "<U+D801>", "<U+DCE2>", "<U+DCBA>" >>, << "<U+D801>", "<U+DCE3>", "<U+DCBB>" >>,
    << "<U+D801>", "<U+DCE4>", "<U+DCBC>" >>, << "<U+D801>", "<U+DCE5>", "<U+DCBD>" >>,
    << "<U+D801>", "<U+DCE6>", "<U+DCBE>" >>, << "<U+D801>", "<U+DCE7>", "<U+DCBF>" >>,
    << "<U+D801>", "<U+DCE8>", "<U+DCC0>" >>, << "<U+D801>", "<U+DCE9>", "<U+DCC1>" >>,
    << "<U+D801>", "<U+DCEA>", "<U+DCC2>" >>, << "<U+D801>", "<U+DCEB>", "<U+DCC3>" >>,
    << "<U+D801>", "<U+DCEC>", "<U+DCC4>" >>, << "<U+D801>", "<U+DCED>", "<U+DCC5>" >>,
    << "<U+D801>", "<U+DCEE>", "<U+DCC6>" >>, << "<U+D801>", "<U+DCEF>", "<U+DCC7>" >>,
    << "<U+D801>", "<U+DCF0>", "<U+DCC8>" >>, << "<U+D801>", "<U+DCF1>", "<U+DCC9>" >>,
    << "<U+D801>", "<U+DCF2>", "<U+DCCA>" >>, << "<U+D801>", "<U+DCF3>", "<U+DCCB>" >>,
    << "<U+D801>", "<U+DCF4>", "<U+DCCC>" >>, << "<U+D801>", "<U+DCF5>", "<U+DCCD>" >>,
    << "<U+D801>", "<U+DCF6>", "<U+DCCE>" >>, << "<U+D801>", "<U+DCF7>", "<U+DCCF>" >>,
    << "<U+D801>", "<U+DCF8>", "<U+DCD0>" >>, << "<U+D801>", "<U+DCF9>", "<U+DCD1>" >>,
    << "<U+D801>", "<U+DCFA>", "<U+DCD2>" >>, << "<U+D801>", "<U+DCFB>", "<U+DCD3>" >>,
    << "<U+D801>", "<U+DD97>", "<U+DD70>" >>, << "<U+D801>", "<U+DD98>", "<U+DD71>" >>,
    << "<U+D801>", "<U+DD99>", "<U+DD72>" >>, << "<U+D801>", "<U+DD9A>", "<U+DD73>" >>,
    << "<U+D801>", "<U+DD9B>", "<U+DD74>" >>, << "<U+D801>", "<U+DD9C>", "<U+DD75>" >>,
    << "<U+D801>", "<U+DD9D>", "<U+DD76>" >>, << "<U+D801>", "<U+DD9E>", "<U+DD77>" >>,
    << "<U+D801>", "<U+DD9F>", "<U+DD78>" >>, << "<U+D801>", "<U+DDA0>", "<U+DD79>" >>,
    << "<U+D801>", "<U+DDA1>", "<U+DD7A>" >>, << "<U+D801>", "<U+DDA3>", "<U+DD7C>" >>,
    << "<U+D801>", "<U+DDA4>", "<U+DD7D>" >>, << "<U+D801>", "<U+DDA5>", "<U+DD7E>" >>,
    << "<U+D801>", "<U+DDA6>", "<U+DD7F>" >>, << "<U+D801>", "<U+DDA7>", "<U+DD80>" >>,
    << "<U+D801>", "<U+DDA8>", "<U+DD81>" >>, << "<U+D801>", "<U+DDA9>", "<U+DD82>" >>,
    << "<U+D801>", "<U+DDAA>", "<U+DD83>" >>, << "<U+D801>", "<U+DDAB>", "<U+DD84>" >>,
    << "<U+D801>", "<U+DDAC>", "<U+DD85>" >>, << "<U+D801>", "<U+DDAD>", "<U+DD86>" >>,
    << "<U+D801>", "<U+DDAE>", "<U+DD87>" >>, << "<U+D801>", "<U+DDAF>", "<U+DD88>" >>,
    << "<U+D801>", "<U+DDB0>", "<U+DD89>" >>, << "<U+D801>", "<U+DDB1>", "<U+DD8A>" >>,
    << "<U+D801>", "<U+DDB3>", "<U+DD8C>" >>, << "<U+D801>", "<U+DDB4>", "<U+DD8D>" >>,
    << "<U+D801>", "<U+DDB5>", "<U+DD8E>" >>, << "<U+D801>", "<U+DDB6>", "<U+DD8F>" >>,
    << "<U+D801>", "<U+DDB7>", "<U+DD90>" >>, << "<U+D801>", "<U+DDB8>", "<U+DD91>" >>,
    << "<U+D801>", "<U+DDB9>", "<U+DD92>" >>, << "<U+D801>", "<U+DDBB>", "<U+DD94>" >>,
    << "<U+D801>", "<U+DDBC>", "<U+DD95>" >>, << "<U+D803>", "<U+DCC0>", "<U+DC80>" >>,
    << "<U+D803>", "<U+DCC1>", "<U+DC81>" >>, << "<U+D803>", "<U+DCC2>", "<U+DC82>" >>,
    << "<U+D803>", "<U+DCC3>", "<U+DC83>" >>, << "<U+D803>", "<U+DCC4>", "<U+DC84>" >>,
    << "<U+D803>", "<U+DCC5>", "<U+DC85>" >>, << "<U+D803>", "<U+DCC6>", "<U+DC86>" >>,
    << "<U+D803>", "<U+DCC7>", "<U+DC87>" >>, << "<U+D803>", "<U+DCC8>", "<U+DC88>" >>,
    << "<U+D803>", "<U+DCC9>", "<U+DC89>" >>, << "<U+D803>", "<U+DCCA>", "<U+DC8A>" >>,
    << "<U+D803>", "<U+DCCB>", "<U+DC8B>" >>, << "<U+D803>", "<U+DCCC>", "<U+DC8C>" >>,
    << "<U+D803>", "<U+DCCD>", "<U+DC8D>" >>, << "<U+D803>", "<U+DCCE>", "<U+DC8E>" >>,
    << "<U+D803>", "<U+DCCF>", "<U+DC8F>" >>, << "<U+D803>", "<U+DCD0>", "<U+DC90>" >>,
    << "<U+D803>", "<U+DCD1>", "<U+DC91>" >>, << "<U+D803>", "<U+DCD2>", "<U+DC92>" >>,
    << "<U+D803>", "<U+DCD3>", "<U+DC93>" >>, << "<U+D803>", "<U+DCD4>", "<U+DC94>" >>,
    << "<U+D803>", "<U+DCD5>", "<U+DC95>" >>, << "<U+D803>", "<U+DCD6>", "<U+DC96>" >>,
    << "<U+D803>", "<U+DCD7>", "<U+DC97>" >>, << "<U+D803>", "<U+DCD8>", "<U+DC98>" >>,
    << "<U+D803>", "<U+DCD9>", "<U+DC99>" >>, << "<U+D803>", "<U+DCDA>", "<U+DC9A>" >>,
    << "<U+D803>", "<U+DCDB>", "<U+DC9B>" >>, << "<U+D803>", "<U+DCDC>", "<U+DC9C>" >>,
    << "<U+D803>", "<U+DCDD>", "<U+DC9D>" >>, << "<U+D803>", "<U+DCDE>", "<U+DC9E>" >>,
    << "<U+D803>", "<U+DCDF>", "<U+DC9F>" >>, << "<U+D803>", "<U+DCE0>", "<U+DCA0>" >>,
    << "<U+D803>", "<U+DCE1>", "<U+DCA1>" >>, << "<U+D803>", "<U+DCE2>", "<U+DCA2>" >>,
    << "<U+D803>", "<U+DCE3>", "<U+DCA3>" >>, << "<U+D803>", "<U+DCE4>", "<U+DCA4>" >>,
    << "<U+D803>", "<U+DCE5>", "<U+DCA5>" >>, << "<U+D803>", "<U+DCE6>", "<U+DCA6>" >>,
    << "<U+D803>", "<U+DCE7>", "<U+DCA7>" >>, << "<U+D803>", "<U+DCE8>", "<U+DCA8>" >>,
    << "<U+D803>", "<U+DCE9>", "<U+DCA9>" >>, << "<U+D803>", "<U+DCEA>", "<U+DCAA>" >>,
    << "<U+D803>", "<U+DCEB>", "<U+DCAB>" >>, << "<U+D803>", "<U+DCEC>", "<U+DCAC>" >>,
    << "<U+D803>", "<U+DCED>", "<U+DCAD>" >>, << "<U+D803>", "<U+DCEE>", "<U+DCAE>" >>,
    << "<U+D803>", "<U+DCEF>", "<U+DCAF>" >>, << "<U+D803>", "<U+DCF0>", "<U+DCB0>" >>,
    << "<U+D803>", "<U+DCF1>", "<U+DCB1>" >>, << "<U+D803>", "<U+DCF2>", "<U+DCB2>" >>,
    << "<U+D803>", "<U+DD70>", "<U+DD50>" >>, << "<U+D803>", "<U+DD71>", "<U+DD51>" >>,
    << "<U+D803>", "<U+DD72>", "<U+DD52>" >>, << "<U+D803>", "<U+DD73>", "<U+DD53>" >>,
    << "<U+D803>", "<U+DD74>", "<U+DD54>" >>, << "<U+D803>", "<U+DD75>", "<U+DD55>" >>,
    << "<U+D803>", "<U+DD76>", "<U+DD56>" >>, << "<U+D803>", "<U+DD77>", "<U+DD57>" >>,
    << "<U+D803>", "<U+DD78>", "<U+DD58>" >>, << "<U+D803>", "<U+DD79>", "<U+DD59>" >>,
    << "<U+D803>", "<U+DD7A>", "<U+DD5A>" >>, << "<U+D803>", "<U+DD7B>", "<U+DD5B>" >>,
    << "<U+D803>", "<U+DD7C>", "<U+DD5C>" >>, << "<U+D803>", "<U+DD7D>", "<U+DD5D>" >>,
    << "<U+D803>", "<U+DD7E>", "<U+DD5E>" >>, << "<U+D803>", "<U+DD7F>", "<U+DD5F>" >>,
    << "<U+D803>", "<U+DD80>", "<U+DD60>" >>, << "<U+D803>", "<U+DD81>", "<U+DD61>" >>,
    << "<U+D803>", "<U+DD82>", "<U+DD62>" >>, << "<U+D803>", "<U+DD83>", "<U+DD63>" >>,
    << "<U+D803>", "<U+DD84>", "<U+DD64>" >>, << "<U+D803>", "<U+DD85>", "<U+DD65>" >>,
    << "<U+D806>", "<U+DCC0>", "<U+DCA0>" >>, << "<U+D806>", "<U+DCC1>", "<U+DCA1>" >>,
    << "<U+D806>", "<U+DCC2>", "<U+DCA2>" >>, << "<U+D806>", "<U+DCC3>", "<U+DCA3>" >>,
    << "<U+D806>", "<U+DCC4>", "<U+DCA4>" >>, << "<U+D806>", "<U+DCC5>", "<U+DCA5>" >>,
    << "<U+D806>", "<U+DCC6>", "<U+DCA6>" >>, << "<U+D806>", "<U+DCC7>", "<U+DCA7>" >>,
    << "<U+D806>", "<U+DCC8>", "<U+DCA8>" >>, << "<U+D806>", "<U+DCC9>", "<U+DCA9>" >>,
    << "<U+D806>", "<U+DCCA>", "<U+DCAA>" >>, << "<U+D806>", "<U+DCCB>", "<U+DCAB>" >>,
    << "<U+D806>", "<U+DCCC>", "<U+DCAC>" >>, << "<U+D806>", "<U+DCCD>", "<U+DCAD>" >>,
    << "<U+D806>", "<U+DCCE>", "<U+DCAE>" >>, << "<U+D806>", "<U+DCCF>", "<U+DCAF>" >>,
    << "<U+D806>", "<U+DCD0>", "<U+DCB0>" >>, << "<U+D806>", "<U+DCD1>", "<U+DCB1>" >>,
    << "<U+D806>", "<U+DCD2>", "<U+DCB2>" >>, << "<U+D806>", "<U+DCD3>", "<U+DCB3>" >>,
    << "<U+D806>", "<U+DCD4>", "<U+DCB4>" >>, << "<U+D806>", "<U+DCD5>", "<U+DCB5>" >>,
    << "<U+D806>", "<U+DCD6>", "<U+DCB6>" >>, << "<U+D806>", "<U+DCD7>", "<U+DCB7>" >>,
    << "<U+D806>", "<U+DCD8>", "<U+DCB8>" >>, << "<U+D806>", "<U+DCD9>", "<U+DCB9>" >>,
    << "<U+D806>", "<U+DCDA>", "<U+DCBA>" >>, << "<U+D806>", "<U+DCDB>", "<U+DCBB>" >>,
    << "<U+D806>", "<U+DCDC>", "<U+DCBC>" >>, << "<U+D806>", "<U+DCDD>", "<U+DCBD>" >>,
    << "<U+D806>", "<U+DCDE>", "<U+DCBE>" >>, << "<U+D806>", "<U+DCDF>", "<U+DCBF>" >>,
    << "<U+D81B>", "<U+DE60>", "<U+DE40>" >>, << "<U+D81B>", "<U+DE61>", "<U+DE41>" >>,
    << "<U+D81B>", "<U+DE62>", "<U+DE42>" >>, << "<U+D81B>", "<U+DE63>", "<U+DE43>" >>,
    << "<U+D81B>", "<U+DE64>", "<U+DE44>" >>, << "<U+D81B>", "<U+DE65>", "<U+DE45>" >>,
    << "<U+D81B>", "<U+DE66>", "<U+DE46>" >>, << "<U+D81B>", "<U+DE67>", "<U+DE47>" >>,
    << "<U+D81B>", "<U+DE68>", "<U+DE48>" >>, << "<U+D81B>", "<U+DE69>", "<U+DE49>" >>,
    << "<U+D81B>", "<U+DE6A>", "<U+DE4A>" >>, << "<U+D81B>", "<U+DE6B>", "<U+DE4B>" >>,
    << "<U+D81B>", "<U+DE6C>", "<U+DE4C>" >>, << "<U+D81B>", "<U+DE6D>", "<U+DE4D>" >>,
    << "<U+D81B>", "<U+DE6E>", "<U+DE4E>" >>, << "<U+D81B>", "<U+DE6F>", "<U+DE4F>" >>,
    << "<U+D81B>", "<U+DE70>", "<U+DE50>" >>, << "<U+D81B>", "<U+DE71>", "<U+DE51>" >>,
    << "<U+D81B>", "<U+DE72>", "<U+DE52>" >>, << "<U+D81B>", "<U+DE73>", "<U+DE53>" >>,
    << "<U+D81B>", "<U+DE74>", "<U+DE54>" >>, << "<U+D81B>", "<U+DE75>", "<U+DE55>" >>,
    << "<U+D81B>", "<U+DE76>", "<U+DE56>" >>, << "<U+D81B>", "<U+DE77>", "<U+DE57>" >>,
    << "<U+D81B>", "<U+DE78>", "<U+DE58>" >>, << "<U+D81B>", "<U+DE79>", "<U+DE59>" >>,
    << "<U+D81B>", "<U+DE7A>", "<U+DE5A>" >>, << "<U+D81B>", "<U+DE7B>", "<U+DE5B>" >>,
    << "<U+D81B>", "<U+DE7C>", "<U+DE5C>" >>, << "<U+D81B>", "<U+DE7D>", "<U+DE5D>" >>,
    << "<U+D81B>", "<U+DE7E>", "<U+DE5E>" >>, << "<U+D81B>", "<U+DE7F>", "<U+DE5F>" >>,
    << "<U+D81B>", "<U+DEBB>", "<U+DEA0>" >>, << "<U+D81B>", "<U+DEBC>", "<U+DEA1>" >>,
    << "<U+D81B>", "<U+DEBD>", "<U+DEA2>" >>, << "<U+D81B>", "<U+DEBE>", "<U+DEA3>" >>,
    << "<U+D81B>", "<U+DEBF>", "<U+DEA4>" >>, << "<U+D81B>", "<U+DEC0>", "<U+DEA5>" >>,
    << "<U+D81B>", "<U+DEC1>", "<U+DEA6>" >>, << "<U+D81B>", "<U+DEC2>", "<U+DEA7>" >>,
    << "<U+D81B>", "<U+DEC3>", "<U+DEA8>" >>, << "<U+D81B>", "<U+DEC4>", "<U+DEA9>" >>,
    << "<U+D81B>", "<U+DEC5>", "<U+DEAA>" >>, << "<U+D81B>", "<U+DEC6>", "<U+DEAB>" >>,
    << "<U+D81B>", "<U+DEC7>", "<U+DEAC>" >>, << "<U+D81B>", "<U+DEC8>", "<U+DEAD>" >>,
    << "<U+D81B>", "<U+DEC9>", "<U+DEAE>" >>, << "<U+D81B>", "<U+DECA>", "<U+DEAF>" >>,
    << "<U+D81B>", "<U+DECB>", "<U+DEB0>" >>, << "<U+D81B>", "<U+DECC>", "<U+DEB1>" >>,
    << "<U+D81B>", "<U+DECD>", "<U+DEB2>" >>, << "<U+D81B>", "<U+DECE>", "<U+DEB3>" >>,
    << "<U+D81B>", "<U+DECF>", "<U+DEB4>" >>, << "<U+D81B>", "<U+DED0>", "<U+DEB5>" >>,
    << "<U+D81B>", "<U+DED1>", "<U+DEB6>" >>, << "<U+D81B>", "<U+DED2>", "<U+DEB7>" >>,
    << "<U+D81B>", "<U+DED3>", "<U+DEB8>" >>, << "<U+D83A>", "<U+DD22>", "<U+DD00>" >>,
    << "<U+D83A>", "<U+DD23>", "<U+DD01>" >>, << "<U+D83A>", "<U+DD24>", "<U+DD02>" >>,
    << "<U+D83A>", "<U+DD25>", "<U+DD03>" >>, << "<U+D83A>", "<U+DD26>", "<U+DD04>" >>,
    << "<U+D83A>", "<U+DD27>", "<U+DD05>" >>, << "<U+D83A>", "<U+DD28>", "<U+DD06>" >>,
    << "<U+D83A>", "<U+DD29>", "<U+DD07>" >>, << "<U+D83A>", "<U+DD2A>", "<U+DD08>" >>,
    << "<U+D83A>", "<U+DD2B>", "<U+DD09>" >>, << "<U+D83A>", "<U+DD2C>", "<U+DD0A>" >>,
    << "<U+D83A>", "<U+DD2D>", "<U+DD0B>" >>, << "<U+D83A>", "<U+DD2E>", "<U+DD0C>" >>,
    << "<U+D83A>", "<U+DD2F>", "<U+DD0D>" >>, << "<U+D83A>", "<U+DD30>", "<U+DD0E>" >>,
    << "<U+D83A>", "<U+DD31>", "<U+DD0F>" >>, << "<U+D83A>", "<U+DD32>", "<U+DD10>" >>,
    << "<U+D83A>", "<U+DD33>", "<U+DD11>" >>, << "<U+D83A>", "<U+DD34>", "<U+DD12>" >>,
    << "<U+D83A>", "<U+DD35>", "<U+DD13>" >>, << "<U+D83A>", "<U+DD36>", "<U+DD14>" >>,
    << "<U+D83A>", "<U+DD37>", "<U+DD15>" >>, << "<U+D83A>", "<U+DD38>", "<U+DD16>" >>,
    << "<U+D83A>", "<U+DD39>", "<U+DD17>" >>, << "<U+D83A>", "<U+DD3A>", "<U+DD18>" >>,
    << "<U+D83A>", "<U+DD3B>", "<U+DD19>" >>, << "<U+D83A>", "<U+DD3C>", "<U+DD1A>" >>,
    << "<U+D83A>", "<U+DD3D>", "<U+DD1B>" >>, << "<U+D83A>", "<U+DD3E>", "<U+DD1C>" >>,
    << "<U+D83A>", "<U+DD3F>", "<U+DD1D>" >>, << "<U+D83A>", "<U+DD40>", "<U+DD1E>" >>,
    << "<U+D83A>", "<U+DD41>", "<U+DD1F>" >>, << "<U+D83A>", "<U+DD42>", "<U+DD20>" >>,
    << "<U+D83A>", "<U+DD43>", "<U+DD21>" >>
  }
\* \w of a regular expression
WordSet == LowerSet \cup UpperSet \cup DigitSet \cup { "_" }

UpperToLower ==
  [ c \in UpperSet |-> LowerSeq[CHOOSE i \in DOMAIN UpperSeq : UpperSeq[i] = c] ]

LowerToUpper ==
  [ c \in LowerSet |-> UpperSeq[CHOOSE i \in DOMAIN LowerSeq : LowerSeq[i] = c] ]

\* the lowercase of the letters A-Z alone: a regular expression with the i
\* flag and without the u flag never takes a character outside ASCII for an
\* ASCII letter
lowerAscii(s) ==
  [ i \in DOMAIN s |-> IF s[i] \in UpperSet THEN UpperToLower[s[i]] ELSE s[i] ]

\* s.slice(0, n)
slice(s, n) == SubSeq(s, 1, IF n < Len(s) THEN n ELSE Len(s))

\* the least i of lo..hi with flag[i]; 0 when there is none
firstIndex(flag, lo, hi) ==
  IF \E i \in lo..hi : flag[i]
    THEN CHOOSE i \in lo..hi : flag[i] /\ \A j \in lo..(i - 1) : ~flag[j]
    ELSE 0

\* the greatest i of 1..hi with flag[i]; 0 when there is none
lastIndex(flag, hi) ==
  IF \E i \in 1..hi : flag[i]
    THEN hi - (CHOOSE d \in 0..(hi - 1) :
                 flag[hi - d] /\ \A e \in 0..(d - 1) : ~flag[hi - e])
    ELSE 0

\* the text t occurs in s at position i
OccursAt(s, t, i) ==
  /\ i >= 1
  /\ i + Len(t) - 1 <= Len(s)
  /\ \A k \in 1..Len(t) : s[i + k - 1] = t[k]

\* the first place at or after i where t occurs in s; 0 when there is none
indexFrom(s, t, i) ==
  LET at == [ j \in 1..Len(s) |-> OccursAt(s, t, j) ]
  IN  firstIndex(at, i, Len(s) - Len(t) + 1)

\* s.indexOf(t), 1-based; 0 when t does not occur
indexOf(s, t) == indexFrom(s, t, 1)

\* s.includes(t)
includes(s, t) == \E i \in 1..(Len(s) - Len(t) + 1) : OccursAt(s, t, i)

\* s.startsWith(t)
startsWith(s, t) == OccursAt(s, t, 1)

\* s.trim()
trim(s) ==
  LET solid == [ i \in 1..Len(s) |-> s[i] \notin SpaceSet ]
      lo == firstIndex(solid, 1, Len(s))
  IN  IF lo = 0 THEN << >> ELSE SubSeq(s, lo, lastIndex(solid, Len(s)))

\* s.replace(pat, rep) with a string pattern: the first occurrence only
replaceFirst(s, pat, rep) ==
  LET i == indexOf(s, pat)
  IN  IF i = 0 THEN s
      ELSE SubSeq(s, 1, i - 1) \o rep \o SubSeq(s, i + Len(pat), Len(s))

\* s.replace(/pat/g, rep) for a literal pattern: every occurrence, left to
\* right, without rescanning the replacement
RECURSIVE replaceFrom(_, _, _, _)
replaceFrom(s, pat, rep, i) ==
  LET j == indexFrom(s, pat, i)
  IN  IF j = 0 THEN SubSeq(s, i, Len(s))
      ELSE SubSeq(s, i, j - 1) \o rep \o replaceFrom(s, pat, rep, j + Len(pat))

replaceAll(s, pat, rep) == replaceFrom(s, pat, rep, 1)

\* s.replace(/pat/gi, rep): as replaceAll, matching without regard to case;
\* pat is given in lowercase
RECURSIVE replaceFromCI(_, _, _, _, _)
replaceFromCI(s, lower, pat, rep, i) ==
  LET j == indexFrom(lower, pat, i)
  IN  IF j = 0 THEN SubSeq(s, i, Len(s))
      ELSE SubSeq(s, i, j - 1) \o rep \o replaceFromCI(s, lower, pat, rep, j + Len(pat))

replaceAllCI(s, pat, rep) == replaceFromCI(s, lowerAscii(s), pat, rep, 1)

\* parts[lo] \o parts[lo + 1] \o ... \o parts[hi]
RECURSIVE concatRange(_, _, _)
concatRange(parts, lo, hi) ==
  IF lo > hi THEN << >>
  ELSE IF lo = hi THEN parts[lo]
  ELSE LET mid == (lo + hi) \div 2
       IN  concatRange(parts, lo, mid) \o concatRange(parts, mid + 1, hi)

\* the concatenation of a sequence of sequences
flatten(parts) == concatRange(parts, 1, Len(parts))

OtherUpperSet == { OtherUpperSeq[i] : i \in DOMAIN OtherUpperSeq }

OtherUpperToLower ==
  [ c \in OtherUpperSet |->
      OtherUpperToLowerSeq[CHOOSE i \in DOMAIN OtherUpperSeq : OtherUpperSeq[i] = c] ]

OtherLowerSet == { OtherLowerSeq[i] : i \in DOMAIN OtherLowerSeq }

OtherLowerToUpper ==
  [ c \in OtherLowerSet |->
      OtherLowerToUpperSeq[CHOOSE i \in DOMAIN OtherLowerSeq : OtherLowerSeq[i] = c] ]

\* capital I with dot above, the one character whose lowercase is two
\* characters: i and the combining dot above
DottedI == "<U+0130>"

\* capital sigma, whose lowercase depends on its place in the word
Sigma == "<U+03A3>"

SmallSigma == "<U+03C3>"

FinalSigma == "<U+03C2>"

\* the characters toLowerCase() cannot map one by one
LowerInContext == { DottedI, Sigma } \cup { p[1] : p \in PairToLower }

\* the characters toUpperCase() cannot map one by one
UpperInContext == OtherLowerSet \cup { p[1] : p \in PairToUpper }

\* the lowercase of a character that does not depend on its neighbours
lowerUnit(c) ==
  IF c \in UpperSet THEN UpperToLower[c]
  ELSE IF c \in OtherUpperSet THEN OtherUpperToLower[c]
  ELSE c

\* a cased character stands at j or beyond it in the direction dir (-1
\* backward, 1 forward), with nothing but case-ignorable characters from j
\* to it; the scan goes character by character, two code units for a
\* character outside the Basic Multilingual Plane, and a character that is
\* both cased and case-ignorable is passed over
RECURSIVE casedFrom(_, _, _)
casedFrom(s, j, dir) ==
  LET k == j + dir
      pair == IF k < 1 \/ k > Len(s) THEN ""
              ELSE IF dir = 1 THEN s[j] \o s[k] ELSE s[k] \o s[j]
  IN  IF j < 1 \/ j > Len(s) THEN FALSE
      ELSE IF pair \in CaseIgnorablePairs THEN casedFrom(s, j + 2 * dir, dir)
      ELSE IF pair \in CasedPairs THEN TRUE
      ELSE IF s[j] \in CaseIgnorable THEN casedFrom(s, j + dir, dir)
      ELSE s[j] \in Cased

\* the sigma at i ends a word: a cased letter stands before it, with nothing
\* but case-ignorable characters between, and none stands after it that way
isFinalSigma(s, i) == casedFrom(s, i - 1, -1) /\ ~casedFrom(s, i + 1, 1)

\* s.toLowerCase()
toLowerCase(s) ==
  IF \A i \in DOMAIN s : s[i] \notin LowerInContext
    THEN [ i \in DOMAIN s |-> lowerUnit(s[i]) ]
    ELSE flatten([ i \in 1..Len(s) |->
           IF s[i] = DottedI THEN << "i", "<U+0307>" >>
           ELSE IF s[i] = Sigma
             THEN << IF isFinalSigma(s, i) THEN FinalSigma ELSE SmallSigma >>
           ELSE IF i > 1 /\ \E p \in PairToLower : p[1] = s[i - 1] /\ p[2] = s[i]
             THEN << (CHOOSE p \in PairToLower :
                        p[1] = s[i - 1] /\ p[2] = s[i])[3] >>
           ELSE << lowerUnit(s[i]) >> ])

\* s.toUpperCase()
toUpperCase(s) ==
  IF \A i \in DOMAIN s : s[i] \notin UpperInContext
    THEN [ i \in DOMAIN s |-> IF s[i] \in LowerSet THEN LowerToUpper[s[i]] ELSE s[i] ]
    ELSE flatten([ i \in 1..Len(s) |->
           IF s[i] \in OtherLowerSet THEN OtherLowerToUpper[s[i]]
           ELSE IF i > 1 /\ \E p \in PairToUpper : p[1] = s[i - 1] /\ p[2] = s[i]
             THEN << (CHOOSE p \in PairToUpper :
                        p[1] = s[i - 1] /\ p[2] = s[i])[3] >>
           ELSE IF s[i] \in LowerSet THEN << LowerToUpper[s[i]] >>
           ELSE << s[i] >> ])

\* seq.filter(keep), for a predicate given as the set of the indices kept
filterIdx(seq, kept) ==
  flatten([ i \in 1..Len(seq) |-> IF i \in kept THEN << seq[i] >> ELSE << >> ])

\* s.split(sep) for a separator of one character
splitOn(s, sep) ==
  LET pieceAt(i) ==
        LET j == indexFrom(s, << sep >>, i)
        IN  SubSeq(s, i, IF j = 0 THEN Len(s) ELSE j - 1)
  IN  flatten([ i \in 1..(Len(s) + 1) |->
                  IF i = 1 \/ s[i - 1] = sep THEN << pieceAt(i) >> ELSE << >> ])

\* s.split("\n")
splitLines(s) == splitOn(s, "\n")

\* lines.join("\n")
joinLines(lines) ==
  flatten([ i \in 1..Len(lines) |->
              IF i = 1 THEN lines[i] ELSE << "\n" >> \o lines[i] ])

(***************************************************************************)
(* ResumeSectioner: parseResumeIntoSections.                               *)
(***************************************************************************)
SectionNames ==
  << "header", "summary", "skills", "experience",
     "education", "projects", "certifications", "additional" >>

EmptySections ==
  [ header |-> << >>, summary |-> << >>, skills |-> << >>, experience |-> << >>,
    education |-> << >>, projects |-> << >>, certifications |-> << >>,
    additional |-> << >> ]

\* the title rules checked in the reverse order
sectionTitleLastMatch(lowerLine) ==
  IF includes(lowerLine, <<"a","d","d","i","t","i","o","n","a","l">>) THEN "additional"
  ELSE IF includes(lowerLine, <<"c","e","r","t","i","f","i","c","a","t","i","o","n","s">>) THEN "certifications"
  ELSE IF includes(lowerLine, <<"p","r","o","j","e","c","t","s">>) THEN "projects"
  ELSE IF includes(lowerLine, <<"e","d","u","c","a","t","i","o","n">>) THEN "education"
  ELSE IF \/ includes(lowerLine, <<"e","x","p","e","r","i","e","n","c","e">>)
          \/ includes(lowerLine, <<"w","o","r","k"," ","h","i","s","t","o","r","y">>)
    THEN "experience"
  ELSE IF includes(lowerLine, <<"s","k","i","l","l","s">>) THEN "skills"
  ELSE IF includes(lowerLine, <<"s","u","m","m","a","r","y">>) THEN "summary"
  ELSE "none"

\* the section a title line switches the cursor to; "none" for any other line
sectionTitle(lowerLine) ==
  IF \/ includes(lowerLine, <<"p","r","o","f","e","s","s","i","o","n","a","l"," ","s","u","m","m",
                              "a","r","y">>)
     \/ includes(lowerLine, <<"s","u","m","m","a","r","y">>)
    THEN "summary"
  ELSE IF \/ includes(lowerLine, <<"t","e","c","h","n","i","c","a","l"," ","s","k","i","l","l","s">>)
          \/ includes(lowerLine, <<"s","k","i","l","l","s">>)
    THEN "skills"
  ELSE IF \/ includes(lowerLine, <<"p","r","o","f","e","s","s","i","o","n","a","l"," ","e","x","p",
                                   "e","r","i","e","n","c","e">>)
          \/ includes(lowerLine, <<"e","x","p","e","r","i","e","n","c","e">>)
          \/ includes(lowerLine, <<"w","o","r","k"," ","h","i","s","t","o","r","y">>)
    THEN "experience"
  ELSE IF includes(lowerLine, <<"e","d","u","c","a","t","i","o","n">>) THEN "education"
  ELSE IF includes(lowerLine, <<"p","r","o","j","e","c","t","s">>) THEN "projects"
  ELSE IF includes(lowerLine, <<"c","e","r","t","i","f","i","c","a","t","i","o","n","s">>) THEN "certifications"
  ELSE IF \/ includes(lowerLine, <<"a","d","d","i","t","i","o","n","a","l"," ","i","n","f","o","r",
                                   "m","a","t","i","o","n">>)
          \/ includes(lowerLine, <<"a","d","d","i","t","i","o","n","a","l">>)
    THEN "additional"
  ELSE "none"

\* the contact rule with the marker "@" alone
isContactLineAtOnly(line) == includes(line, <<"@">>)

\* the contact markers are looked up in the line as written, not lowercased
isContactLine(line) ==
  \/ includes(line, <<"@">>)
  \/ includes(line, <<"l","i","n","k","e","d","i","n">>)
  \/ includes(line, <<"g","i","t","h","u","b">>)
  \/ includes(line, <<"p","h","o","n","e">>)
  \/ includes(line, <<"e","m","a","i","l">>)

isSoftSkillLine(line, lowerLine) ==
  /\ startsWith(line, << Bullet >>)
  /\ \/ includes(lowerLine, <<"c","o","n","t","i","n","u","o","u","s"," ","l","e","a","r","n","e",
                              "r">>)
     \/ includes(lowerLine, <<"a","v","a","i","l","a","b","l","e"," ","f","o","r">>)
     \/ includes(lowerLine, <<"i","m","m","e","d","i","a","t","e"," ","s","t","a","r","t">>)
     \/ includes(lowerLine, <<"f","l","e","x","i","b","l","e"," ","w","o","r","k">>)
     \/ includes(lowerLine, <<"p","r","o","b","l","e","m","-","s","o","l","v","i","n","g">>)
     \/ includes(lowerLine, <<"c","o","m","m","u","n","i","c","a","t","i","o","n">>)
     \/ includes(lowerLine, <<"t","e","a","m"," ","p","l","a","y","e","r">>)
     \/ includes(lowerLine, <<"a","t","t","e","n","t","i","o","n"," ","t","o"," ","d","e","t","a",
                              "i","l">>)
     \/ /\ includes(lowerLine, <<"s","t","r","o","n","g">>)
        /\ \/ includes(lowerLine, <<"a","b","i","l","i","t","i","e","s">>)
           \/ includes(lowerLine, <<"s","k","i","l","l","s">>)

isSkillsExtraLine(line, lowerLine) ==
  /\ startsWith(line, << Bullet >>)
  /\ \/ includes(lowerLine, <<"p","o","r","t","f","o","l","i","o">>)
     \/ includes(lowerLine, <<"s","t","a","y","i","n","g"," ","u","p","d","a","t","e","d">>)
     \/ includes(lowerLine, <<"l","a","t","e","s","t"," ","t","e","c","h","n","o","l","o","g","i",
                              "e","s">>)

\* appendLine that also copies the line to additional
appendLineCopied(st, key, line) ==
  [ st EXCEPT !.sections = [ k \in DOMAIN st.sections |->
      IF k = key \/ k = "additional"
      THEN st.sections[k] \o line \o << "\n" >> ELSE st.sections[k] ] ]

\* sections[key] += line + "\n"
appendLine(st, key, line) ==
  [ st EXCEPT !.sections[key] = @ \o line \o << "\n" >> ]

\* one iteration of the loop over the lines; st is the record of the loop's
\* variables sections, currentSection and headerComplete
parseLine(st, line) ==
  LET lowerLine == toLowerCase(line)
      title == sectionTitle(lowerLine)
      inHeader == ~st.headerComplete /\ st.currentSection = "header"
      headerEnds ==
        /\ inHeader
        /\ Len(st.sections.header) > 0
        /\ ~includes(lowerLine, <<"d","e","v","e","l","o","p","e","r">>)
        /\ ~includes(lowerLine, <<"e","n","g","i","n","e","e","r">>)
      st2 == IF headerEnds
               THEN [ st EXCEPT !.headerComplete = TRUE, !.currentSection = "summary" ]
               ELSE st
  IN  IF title # "none" THEN [ st EXCEPT !.currentSection = title ]
      ELSE IF inHeader /\ isContactLine(line) THEN appendLine(st, "header", line)
      ELSE IF isSoftSkillLine(line, lowerLine) THEN appendLine(st2, "additional", line)
      ELSE IF st2.currentSection = "skills" /\ isSkillsExtraLine(line, lowerLine)
        THEN appendLine(st2, "additional", line)
      ELSE appendLine(st2, st2.currentSection, line)

RECURSIVE parseLines(_, _, _)
parseLines(st, lines, i) ==
  IF i > Len(lines) THEN st
  ELSE parseLines(parseLine(st, lines[i]), lines, i + 1)

\* resume.split("\n").map(trim).filter(non-empty)
resumeLines(resume) ==
  LET raw == splitLines(resume)
      trimmed == [ i \in DOMAIN raw |-> trim(raw[i]) ]
  IN  filterIdx(trimmed, { i \in DOMAIN trimmed : trimmed[i] # << >> })

\* the variables of the loop before its first iteration
FirstIteration ==
  [ sections |-> EmptySections, currentSection |-> "header", headerComplete |-> FALSE ]

parseResumeIntoSections(resume) ==
  parseLines(FirstIteration, resumeLines(resume), 1).sections

(***************************************************************************)
(* SectionEnhancer.                                                        *)
(***************************************************************************)
CannedSummary ==
  <<"P","a","s","s","i","o","n","a","t","e"," ","F","r","o","n","t","e","n","d"," ","D","e","v","e",
    "l","o","p","e","r"," ","w","i","t","h"," ","3"," ","y","e","a","r","s"," ","o","f"," ","e","x",
    "p","e","r","i","e","n","c","e"," ","c","r","e","a","t","i","n","g"," ","d","y","n","a","m","i",
    "c"," ","R","e","a","c","t"," ","w","e","b"," ","a","p","p","l","i","c","a","t","i","o","n","s",
    "."," ","S","k","i","l","l","e","d"," ","i","n"," ","J","a","v","a","S","c","r","i","p","t",",",
    " ","T","y","p","e","S","c","r","i","p","t",","," ","a","n","d"," ","m","o","d","e","r","n"," ",
    "f","r","a","m","e","w","o","r","k","s"," ","w","i","t","h"," ","p","r","o","v","e","n"," ","e",
    "x","p","e","r","t","i","s","e"," ","i","n"," ","r","e","s","p","o","n","s","i","v","e"," ","d",
    "e","s","i","g","n"," ","p","r","i","n","c","i","p","l","e","s"," ","a","n","d"," ","c","o","l",
    "l","a","b","o","r","a","t","i","v","e"," ","d","e","v","e","l","o","p","m","e","n","t",".">>

enhanceSummarySection(summary) ==
  IF trim(summary) = << >> THEN CannedSummary
  ELSE
    LET enhanced0 == trim(summary)
        summaryLower == toLowerCase(enhanced0)
        enhanced1 ==
          IF /\ includes(summaryLower, <<"r","e","a","c","t">>)
             /\ ~includes(summaryLower, <<"t","y","p","e","s","c","r","i","p","t">>)
            THEN replaceAllCI(enhanced0, <<"r","e","a","c","t">>, <<"R","e","a","c","t"," ","a","n",
                                                                    "d"," ","T","y","p","e","S","c",
                                                                    "r","i","p","t">>)
            ELSE enhanced0
    IN  IF /\ includes(summaryLower, <<"j","a","v","a","s","c","r","i","p","t">>)
           /\ ~includes(summaryLower, <<"r","e","a","c","t">>)
          THEN replaceAllCI(enhanced1, <<"j","a","v","a","s","c","r","i","p","t">>, <<"R","e","a",
                                                                                      "c","t",",",
                                                                                      " ","J","a",
                                                                                      "v","a","S",
                                                                                      "c","r","i",
                                                                                      "p","t">>)
          ELSE enhanced1

\* keywords.some((k) => k.toLowerCase().includes(t))
someKeywordIncludes(keywords, t) ==
  \E i \in DOMAIN keywords : includes(toLowerCase(keywords[i]), t)

enhanceSkillsSection(skills, keywords) ==
  IF trim(skills) = << >> THEN skills
  ELSE
    LET enhanced0 == trim(skills)
        skillsLower == toLowerCase(enhanced0)
        enhanced1 ==
          IF /\ ~includes(skillsLower, <<"t","y","p","e","s","c","r","i","p","t">>)
             /\ includes(enhanced0, <<"J","a","v","a","S","c","r","i","p","t">>)
            THEN replaceFirst(enhanced0, <<"J","a","v","a","S","c","r","i","p","t">>, <<"J","a","v",
                                                                                        "a","S","c",
                                                                                        "r","i","p",
                                                                                        "t",","," ",
                                                                                        "T","y","p",
                                                                                        "e","S","c",
                                                                                        "r","i","p",
                                                                                        "t">>)
            ELSE enhanced0
    IN  IF /\ ~includes(skillsLower, <<"t","a","i","l","w","i","n","d">>)
           /\ someKeywordIncludes(keywords, <<"t","a","i","l","w","i","n","d">>)
           /\ includes(enhanced1, <<"B","o","o","t","s","t","r","a","p">>)
          THEN replaceFirst(enhanced1, <<"B","o","o","t","s","t","r","a","p">>, <<"B","o","o","t",
                                                                                  "s","t","r","a",
                                                                                  "p",","," ","T",
                                                                                  "a","i","l","w",
                                                                                  "i","n","d"," ",
                                                                                  "C","S","S">>)
          ELSE enhanced1

enhanceExperienceSection(experience, keywords) ==
  IF trim(experience) = << >> THEN experience
  ELSE
    LET enhanced0 == trim(experience)
    IN  IF someKeywordIncludes(keywords, <<"t","y","p","e","s","c","r","i","p","t">>)
          THEN replaceAll(
                 replaceAll(enhanced0,
                            <<"R","e","a","c","t",".","j","s"," ","a","n","d"," ","m","o","d","e",
                              "r","n"," ","J","a","v","a","S","c","r","i","p","t">>,
                            <<"R","e","a","c","t",".","j","s",","," ","T","y","p","e","S","c","r",
                              "i","p","t",","," ","a","n","d"," ","m","o","d","e","r","n"," ","J",
                              "a","v","a","S","c","r","i","p","t">>),
                 <<"u","s","i","n","g"," ","R","e","a","c","t",".","j","s">>,
                 <<"u","s","i","n","g"," ","R","e","a","c","t",".","j","s"," ","a","n","d"," ","T",
                   "y","p","e","S","c","r","i","p","t">>)
          ELSE enhanced0

(***************************************************************************)
(* ResumeReconstructor.                                                    *)
(***************************************************************************)
\* the filter of the skills lines: a bullet line stays only with one of the
\* six category words
keepSkillLine(line) ==
  LET lower == toLowerCase(line)
  IN  \/ ~startsWith(line, << Bullet >>)
      \/ includes(lower, <<"p","r","o","g","r","a","m","m","i","n","g">>)
      \/ includes(lower, <<"f","r","a","m","e","w","o","r","k","s">>)
      \/ includes(lower, <<"t","o","o","l","s">>)
      \/ includes(lower, <<"d","a","t","a","b","a","s","e","s">>)
      \/ includes(lower, <<"d","e","s","i","g","n">>)
      \/ includes(lower, <<"l","a","n","g","u","a","g","e","s">>)

\* every label emitted, whether its section is populated or not
reconstructResumeAllLabels(sections) ==
  trim(   trim(sections.header) \o <<"\n","\n">>
       \o <<"P","R","O","F","E","S","S","I","O","N","A","L"," ","S","U","M","M","A","R","Y","\n">> \o trim(sections.summary) \o <<
                                                                                                                                  "\n",
                                                                                                                                  "\n">>
       \o <<"T","E","C","H","N","I","C","A","L"," ","S","K","I","L","L","S","\n">> \o trim(sections.skills) \o <<
                                                                                                                 "\n",
                                                                                                                 "\n">>
       \o <<"P","R","O","F","E","S","S","I","O","N","A","L"," ","E","X","P","E","R","I","E","N","C",
            "E","\n">> \o trim(sections.experience) \o <<"\n","\n">>
       \o <<"E","D","U","C","A","T","I","O","N","\n">> \o trim(sections.education) \o <<"\n","\n">>
       \o <<"P","R","O","J","E","C","T","S","\n">> \o trim(sections.projects) \o <<"\n","\n">>
       \o <<"C","E","R","T","I","F","I","C","A","T","I","O","N","S","\n">> \o trim(sections.certifications) \o <<
                                                                                                                 "\n",
                                                                                                                 "\n">>
       \o <<"A","D","D","I","T","I","O","N","A","L"," ","I","N","F","O","R","M","A","T","I","O","N",
            "\n">> \o trim(sections.additional))

reconstructResume(sections) ==
  LET part(text, label, tail) ==
        IF trim(text) = << >> THEN << >> ELSE label \o trim(text) \o tail
      skillLines ==
        LET ls == splitLines(trim(sections.skills))
        IN  filterIdx(ls, { i \in DOMAIN ls : keepSkillLine(ls[i]) })
      skillsPart ==
        IF trim(sections.skills) = << >> THEN << >>
        ELSE <<"T","E","C","H","N","I","C","A","L"," ","S","K","I","L","L","S","\n">> \o joinLines(skillLines) \o <<
                                                                                                                    "\n",
                                                                                                                    "\n">>
  IN  trim(   part(sections.header, << >>, <<"\n","\n">>)
           \o part(sections.summary, <<"P","R","O","F","E","S","S","I","O","N","A","L"," ","S","U",
                                       "M","M","A","R","Y","\n">>, <<"\n","\n">>)
           \o skillsPart
           \o part(sections.experience, <<"P","R","O","F","E","S","S","I","O","N","A","L"," ","E",
                                          "X","P","E","R","I","E","N","C","E","\n">>, <<"\n","\n">>)
           \o part(sections.education, <<"E","D","U","C","A","T","I","O","N","\n">>, <<"\n","\n">>)
           \o part(sections.projects, <<"P","R","O","J","E","C","T","S","\n">>, <<"\n","\n">>)
           \o part(sections.certifications, <<"C","E","R","T","I","F","I","C","A","T","I","O","N",
                                              "S","\n">>, <<"\n","\n">>)
           \o part(sections.additional, <<"A","D","D","I","T","I","O","N","A","L"," ","I","N","F",
                                          "O","R","M","A","T","I","O","N","\n">>, <<"\n">>))

\* jobKeywords.filter(...): the keywords that name one of the five technologies
techKeywords(jobKeywords) ==
  filterIdx(jobKeywords,
            { i \in DOMAIN jobKeywords :
                LET k == toLowerCase(jobKeywords[i])
                IN  \/ includes(k, <<"r","e","a","c","t">>)
                    \/ includes(k, <<"t","y","p","e","s","c","r","i","p","t">>)
                    \/ includes(k, <<"j","a","v","a","s","c","r","i","p","t">>)
                    \/ includes(k, <<"c","s","s">>)
                    \/ includes(k, <<"t","a","i","l","w","i","n","d">>) })

\* the enhancement that also trims the sections it does not rewrite
enhanceSectionsTrimmed(resumeSections, jobKeywords) ==
  [ key \in DOMAIN resumeSections |->
      IF key = "summary" THEN enhanceSummarySection(resumeSections.summary)
      ELSE IF key = "skills"
        THEN enhanceSkillsSection(resumeSections.skills, techKeywords(jobKeywords))
      ELSE IF key = "experience"
        THEN enhanceExperienceSection(resumeSections.experience, techKeywords(jobKeywords))
      ELSE trim(resumeSections[key]) ]

\* the enhanced copy of the sections
enhanceSections(resumeSections, jobKeywords) ==
  LET tech == techKeywords(jobKeywords)
  IN  [ resumeSections EXCEPT
          !.summary = enhanceSummarySection(resumeSections.summary),
          !.skills = enhanceSkillsSection(resumeSections.skills, tech),
          !.experience = enhanceExperienceSection(resumeSections.experience, tech) ]

enhancedSections(originalResume, jobKeywords) ==
  enhanceSections(parseResumeIntoSections(originalResume), jobKeywords)

enhanceResumeWithKeywords(originalResume, jobKeywords) ==
  reconstructResume(enhancedSections(originalResume, jobKeywords))

(***************************************************************************)
(* Validation of the summarizer's output: cleanAndStructureText and        *)
(* isGarbledText.                                                          *)
(***************************************************************************)
\* the characters the two regular expressions [^\w\s\-\.\,\(\)\@\|\/\:] let be
AllowedPunct == { "-", ".", ",", "(", ")", "@", "|", "/", ":" }

\* n or more consecutive characters of s are all in the class
hasRunIn(s, class, n) ==
  \E i \in 1..(Len(s) - n + 1) : \A k \in 0..(n - 1) : s[i + k] \in class

\* n or more consecutive characters of s are all outside the class
hasRunNotIn(s, class, n) ==
  \E i \in 1..(Len(s) - n + 1) : \A k \in 0..(n - 1) : s[i + k] \notin class

\* the second pattern taken as /\S{20,}/
isGarbledTextUnspaced(text) ==
  \/ hasRunNotIn(text, LowerSet \cup UpperSet \cup SpaceSet, 3)
  \/ hasRunNotIn(text, SpaceSet, 20)
  \/ hasRunNotIn(text, WordSet \cup SpaceSet \cup AllowedPunct, 2)

\* /[^a-zA-Z\s]{3,}/, /\w{20,}/ and /[^\w\s\.\,\-\(\)\@\|\/\:]{2,}/
isGarbledText(text) ==
  \/ hasRunNotIn(text, LowerSet \cup UpperSet \cup SpaceSet, 3)
  \/ hasRunIn(text, WordSet, 20)
  \/ hasRunNotIn(text, WordSet \cup SpaceSet \cup AllowedPunct, 2)

\* the text with its symbols left in place
blankSymbolsKept(s) == s

\* .replace(/[^\w\s\-\.\,\(\)\@\|\/\:]/g, " ")
blankSymbols(s) ==
  [ i \in DOMAIN s |->
      IF s[i] \in WordSet \cup SpaceSet \cup AllowedPunct THEN s[i] ELSE " " ]

\* .replace(/\s+/g, " ")
collapseSpaces(s) ==
  flatten([ i \in 1..Len(s) |->
              IF s[i] \notin SpaceSet THEN << s[i] >>
              ELSE IF i > 1 /\ s[i - 1] \in SpaceSet THEN << >>
              ELSE << " " >> ])

\* the end of the match of /\.\s*\./ that starts at i, or 0 when there is none
dotPairEnd(s, i) ==
  IF i > Len(s) \/ s[i] # "." THEN 0
  ELSE
    LET solid == [ j \in 1..Len(s) |-> s[j] \notin SpaceSet ]
        j == firstIndex(solid, i + 1, Len(s))
    IN  IF j # 0 /\ s[j] = "." THEN j ELSE 0

\* .replace(/\.\s*\./g, "."): every match, left to right, without overlap
RECURSIVE mergeDotsFrom(_, _)
mergeDotsFrom(s, i) ==
  LET starts == [ j \in 1..Len(s) |-> dotPairEnd(s, j) # 0 ]
      j == firstIndex(starts, i, Len(s))
  IN  IF j = 0 THEN SubSeq(s, i, Len(s))
      ELSE SubSeq(s, i, j - 1) \o << "." >> \o mergeDotsFrom(s, dotPairEnd(s, j) + 1)

mergeDots(s) == mergeDotsFrom(s, 1)

cleanText(text) == trim(mergeDots(collapseSpaces(blankSymbols(text))))

\* the acceptance without the check of the three labels
acceptsExternalUnlabelled(text) ==
  /\ Len(trim(text)) >= 50
  /\ Len(cleanText(text)) >= 100
  /\ ~isGarbledText(cleanText(text))

\* TRUE when the summarizer's text is accepted as the tailored resume
acceptsExternal(text) ==
  /\ Len(trim(text)) >= 50
  /\ LET cleaned == cleanText(text)
     IN  /\ Len(cleaned) >= 100
         /\ ~isGarbledText(cleaned)
         /\ \/ includes(cleaned, <<"P","R","O","F","E","S","S","I","O","N","A","L">>)
            \/ includes(cleaned, <<"E","X","P","E","R","I","E","N","C","E">>)
            \/ includes(cleaned, <<"S","K","I","L","L","S">>)

cleanAndStructureText(text, originalResume) ==
  IF acceptsExternal(text)
    THEN cleanText(text)
    ELSE enhanceResumeWithKeywords(originalResume, << >>)

(***************************************************************************)
(* KeywordExtractor.                                                       *)
(***************************************************************************)
stopWords ==
  { <<"t","h","e">>, <<"a","n","d">>, <<"o","r">>, <<"b","u","t">>, <<"i","n">>, <<"o","n">>, <<"a",
                                                                                                "t">>, <<
                                                                                                         "t",
                                                                                                         "o">>,
    <<"f","o","r">>, <<"o","f">>, <<"w","i","t","h">>, <<"b","y">>, <<"t","h","i","s">>, <<"t","h",
                                                                                           "a","t">>, <<
                                                                                                        "t",
                                                                                                        "h",
                                                                                                        "e",
                                                                                                        "s",
                                                                                                        "e">>,
    <<"t","h","o","s","e">>, <<"a">>, <<"a","n">>, <<"i","s">>, <<"a","r","e">>, <<"w","a","s">>, <<
                                                                                                    "w",
                                                                                                    "e",
                                                                                                    "r",
                                                                                                    "e">>, <<
                                                                                                             "b",
                                                                                                             "e">>,
    <<"b","e","e","n">>, <<"b","e","i","n","g">>, <<"h","a","v","e">>, <<"h","a","s">>, <<"h","a",
                                                                                          "d">>, <<
                                                                                                   "d",
                                                                                                   "o">>, <<
                                                                                                            "d",
                                                                                                            "o",
                                                                                                            "e",
                                                                                                            "s">>,
    <<"d","i","d">>, <<"w","i","l","l">>, <<"w","o","u","l","d">>, <<"c","o","u","l","d">>, <<"s",
                                                                                              "h",
                                                                                              "o",
                                                                                              "u",
                                                                                              "l",
                                                                                              "d">>, <<
                                                                                                       "m",
                                                                                                       "a",
                                                                                                       "y">>,
    <<"m","i","g","h","t">>, <<"m","u","s","t">>, <<"c","a","n">> }

domainSubstrings ==
  { <<"r","e","a","c","t">>, <<"j","a","v","a","s","c","r","i","p","t">>, <<"t","y","p","e","s","c",
                                                                            "r","i","p","t">>, <<
                                                                                                 "c",
                                                                                                 "s",
                                                                                                 "s">>, <<
                                                                                                          "h",
                                                                                                          "t",
                                                                                                          "m",
                                                                                                          "l">>,
    <<"f","r","o","n","t","e","n","d">>, <<"d","e","v","e","l","o","p","e","r">>, <<"e","x","p","e",
                                                                                    "r","i","e","n",
                                                                                    "c","e">>, <<
                                                                                                 "a",
                                                                                                 "p",
                                                                                                 "p",
                                                                                                 "l",
                                                                                                 "i",
                                                                                                 "c",
                                                                                                 "a",
                                                                                                 "t",
                                                                                                 "i",
                                                                                                 "o",
                                                                                                 "n">>,
    <<"f","r","a","m","e","w","o","r","k">>, <<"r","e","s","p","o","n","s","i","v","e">>, <<"d","e",
                                                                                            "s","i",
                                                                                            "g","n">>, <<
                                                                                                         "t",
                                                                                                         "a",
                                                                                                         "i",
                                                                                                         "l",
                                                                                                         "w",
                                                                                                         "i",
                                                                                                         "n",
                                                                                                         "d">> }

\* text.match(/\b[a-z]{3,}\b/g): the maximal runs of word characters that
\* are made of three or more lowercase letters and nothing else
matchWords(s) ==
  LET isStart(i) == s[i] \in WordSet /\ (i = 1 \/ s[i - 1] \notin WordSet)
      stop == [ j \in 1..Len(s) |-> s[j] \notin WordSet ]
      runEnd(i) ==
        LET j == firstIndex(stop, i, Len(s))
        IN  IF j = 0 THEN Len(s) ELSE j - 1
      match(i) ==
        IF ~isStart(i) THEN << >>
        ELSE LET run == SubSeq(s, i, runEnd(i))
             IN  IF Len(run) >= 3 /\ \A k \in DOMAIN run : run[k] \in LowerSet
                   THEN << run >> ELSE << >>
  IN  flatten([ i \in 1..Len(s) |-> match(i) ])

\* the filter without the domain substrings
keepWordByLength(word) == Len(word) >= 4

\* the filter on the domain substrings and the length
keepWord(word) ==
  \/ \E d \in domainSubstrings : includes(word, d)
  \/ Len(word) >= 4

\* .filter((word, index, arr) => arr.indexOf(word) === index)
dedupe(arr) ==
  filterIdx(arr, { i \in DOMAIN arr : \A j \in 1..(i - 1) : arr[j] # arr[i] })

\* word.charAt(0).toUpperCase() + word.slice(1)
capitalize(word) ==
  IF word = << >> THEN word
  ELSE toUpperCase(<< word[1] >>) \o Tail(word)

MaxKeywords == 10

ShownKeywords == 8

\* the words of the text that pass the two filters, repeats included
candidateWords(text) ==
  LET words == matchWords(toLowerCase(text))
      noStop == filterIdx(words, { i \in DOMAIN words : words[i] \notin stopWords })
  IN  filterIdx(noStop, { i \in DOMAIN noStop : keepWord(noStop[i]) })

\* slice(0, 10) taken before the Set removes the repeats
extractKeywordsSlicedFirst(text) ==
  LET first == dedupe(slice(candidateWords(text), MaxKeywords))
  IN  [ i \in DOMAIN first |-> capitalize(first[i]) ]

extractKeywords(text) ==
  LET first == slice(dedupe(candidateWords(text)), MaxKeywords)
  IN  [ i \in DOMAIN first |-> capitalize(first[i]) ]

(***************************************************************************)
(* ScoreCalculator and the improvements list.                              *)
(***************************************************************************)
\* Math.floor in the place of Math.round
roundDivFloor(matched, total) == (100 * matched) \div total

\* the odd k for which the double (k / 200) * 100 lies just below k / 2, so
\* that Math.round gives (k - 1) / 2; for every other k of 1..199 the double
\* is k / 2 itself
RoundsDown == { 29, 57, 113, 115 }

\* Math.round((matched / total) * 100) in double arithmetic, for
\* 0 <= matched <= total: the exact quotient rounded half up, but for the
\* halves that the double falls short of
roundDiv(matched, total) ==
  LET twice == (200 * matched) \div total
  IN  IF (200 * matched) % total = 0 /\ twice \in RoundsDown
        THEN (twice - 1) \div 2
        ELSE (200 * matched + total) \div (2 * total)

matchedKeywords(keywords, resume) ==
  LET resumeLower == toLowerCase(resume)
  IN  { i \in DOMAIN keywords : includes(resumeLower, toLowerCase(keywords[i])) }

EmptyScore == 60

MinScore == 50

MaxScore == 95

calculateMatchScore(keywords, resume) ==
  IF Len(keywords) = 0 THEN EmptyScore
  ELSE
    LET baseScore ==
          roundDiv(Cardinality(matchedKeywords(keywords, resume)), Len(keywords))
        floor == IF baseScore > MinScore THEN baseScore ELSE MinScore
    IN  IF floor < MaxScore THEN floor ELSE MaxScore

generateImprovements(matchScore, useAlternative) ==
  << "Enhanced resume structure and formatting",
     "Improved keyword optimization for ATS systems",
     "Strengthened professional presentation",
     "Added TypeScript and React focus" >>
  \o (IF matchScore >= 80 THEN << "Achieved excellent job-resume alignment" >>
      ELSE IF matchScore >= 65 THEN << "Significantly improved job relevance" >>
      ELSE << >>)
  \o (IF useAlternative THEN << "Applied advanced AI optimization techniques" >>
      ELSE << "Applied intelligent content enhancement" >>)

FallbackImprovements ==
  << "Applied keyword optimization",
     "Enhanced resume structure",
     "Added TypeScript and React focus",
     "Maintained professional formatting" >>

(***************************************************************************)
(* JSON values of a request body.  A field is absent (undefined), null, a *)
(* string or a number.                                                     *)
(***************************************************************************)
Undefined == [ kind |-> "undefined" ]

Str(t) == [ kind |-> "string", text |-> t ]

Num(n) == [ kind |-> "number", value |-> n ]

\* the JSON value null; also result === null in the component
Null == [ kind |-> "null" ]

\* a check that rejects only absent fields, where !v also rejects ""
falsyAbsentOnly(v) == v.kind = "undefined"

\* !v
falsy(v) ==
  \/ v.kind = "undefined"
  \/ v.kind = "null"
  \/ v.kind = "string" /\ v.text = << >>
  \/ v.kind = "number" /\ v.value = 0

\* v?.trim() throws a TypeError: v is neither nullish nor a string
trimThrows(v) == v.kind \notin { "undefined", "null", "string" }

\* a check without trim(), which takes whitespace for content
blankUntrimmed(v) ==
  \/ v.kind = "undefined"
  \/ v.kind = "null"
  \/ v.kind = "string" /\ v.text = << >>

\* !v?.trim()
blank(v) ==
  \/ v.kind = "undefined"
  \/ v.kind = "null"
  \/ v.kind = "string" /\ trim(v.text) = << >>

\* new Date() and new Date().toISOString(): the clock is not modelled
Now == "<now>"

(***************************************************************************)
(* The inputs: job descriptions, resumes and summarizer outputs.           *)
(***************************************************************************)
ScenarioJob ==
  <<"W","e"," ","n","e","e","d"," ","a"," ","S","e","n","i","o","r"," ","R","e","a","c","t"," ","D",
    "e","v","e","l","o","p","e","r"," ","w","i","t","h"," ","T","y","p","e","S","c","r","i","p","t",
    ","," ","T","a","i","l","w","i","n","d"," ","C","S","S",","," ","a","n","d"," ","r","e","s","p",
    "o","n","s","i","v","e"," ","d","e","s","i","g","n"," ","e","x","p","e","r","i","e","n","c","e",
    ".">>

\* eight keywords, seven of them found in the tailored ScenarioResume
EightJob ==
  <<"S","e","n","i","o","r"," ","R","e","a","c","t"," ","d","e","v","e","l","o","p","e","r",":"," ",
    "T","y","p","e","S","c","r","i","p","t",","," ","T","a","i","l","w","i","n","d",","," ","d","e",
    "s","i","g","n",","," ","a","p","p","s",","," ","K","u","b","e","r","n","e","t","e","s",".">>

\* more than ten distinct words, with repeats, a stop word, words next to
\* digits and three-letter words
ManyJob ==
  <<"R","e","a","c","t"," ","d","e","v","e","l","o","p","e","r",":"," ","R","e","a","c","t",","," ",
    "H","T","M","L","5"," ","a","n","d"," ","C","S","S","."," ","M","u","s","t"," ","b","u","i","l",
    "d"," ","R","E","A","C","T"," ","a","p","p","s",","," ","t","e","s","t"," ","c","o","d","e",",",
    " ","s","h","i","p"," ","f","a","s","t",","," ","w","r","i","t","e"," ","d","o","c","s",","," ",
    "l","e","a","d"," ","t","e","a","m",";"," ","S","Q","L","_","2"," ","o","r"," ","S","Q","L"," ",
    "p","l","u","s",".">>

\* two keywords, both in every tailored resume
ShortJob == <<"R","e","a","c","t"," ","d","e","v","e","l","o","p","e","r">>

\* no word of three or more letters
NoKeywordJob == <<"Q","A",":"," ","C","+","+"," ","/"," ","G","o",","," ","2","4","x","7"," ","o",
                  "n"," ","i","t","!">>

ScenarioResume ==
  <<"J","o","h","n"," ","D","o","e","\n","j","o","h","n","@","e","x","a","m","p","l","e",".","c",
    "o","m","\n","S","e","n","i","o","r"," ","D","e","v","e","l","o","p","e","r","\n","\n","S","k",
    "i","l","l","s","\n","J","a","v","a","S","c","r","i","p","t",","," ","B","o","o","t","s","t",
    "r","a","p","\n","\n","E","x","p","e","r","i","e","n","c","e","\n","B","u","i","l","t"," ","a",
    "p","p","s"," ","u","s","i","n","g"," ","R","e","a","c","t",".","j","s"," ","a","n","d"," ","m",
    "o","d","e","r","n"," ","J","a","v","a","S","c","r","i","p","t",".">>

\* a resume with every kind of line: contact lines, a summary that names
\* JavaScript, bullet lines, soft skills, and lines under each title
FullResume ==
  <<"J","a","n","e"," ","R","o","e","\n","p","h","o","n","e"," ","5","5","5"," ","0","1","0","0",
    "\n","F","r","o","n","t","e","n","d"," ","E","n","g","i","n","e","e","r","\n","I"," ","b","u",
    "i","l","d"," ","J","a","v","a","S","c","r","i","p","t"," ","a","p","p","s",".","\n","\n","T",
    "e","c","h","n","i","c","a","l"," ","S","k","i","l","l","s","\n",Bullet," ","L","a","n","g","u",
    "a","g","e","s",":"," ","J","a","v","a","S","c","r","i","p","t","\n",Bullet," ","P","o","r","t",
    "f","o","l","i","o"," ","a","t"," ","j","a","n","e",".","d","e","v","\n",Bullet," ","T","e","a",
    "m"," ","p","l","a","y","e","r","\n","B","o","o","t","s","t","r","a","p","\n","\n","W","o","r",
    "k"," ","H","i","s","t","o","r","y","\n","S","h","i","p","p","e","d"," ","s","i","t","e","s",
    " ","u","s","i","n","g"," ","R","e","a","c","t",".","j","s","\n","\n","E","d","u","c","a","t",
    "i","o","n","\n","B","S","c",","," ","2","0","1","9","\n","\n","P","r","o","j","e","c","t","s",
    "\n","S","h","o","p"," ","U","I","\n","\n","C","e","r","t","i","f","i","c","a","t","i","o","n",
    "s","\n","A","W","S","\n","\n","A","d","d","i","t","i","o","n","a","l","\n","O","p","e","n"," ",
    "t","o"," ","t","r","a","v","e","l">>

\* a summarizer output that passes every check of cleanAndStructureText
GoodOutput ==
  <<"P","R","O","F","E","S","S","I","O","N","A","L"," ","S","U","M","M","A","R","Y",":"," ","F","r",
    "o","n","t","e","n","d"," ","d","e","v","e","l","o","p","e","r",".","."," ","b","u","i","l","d",
    "i","n","g"," ","R","e","a","c","t"," ","a","p","p","s"," ","(","T","y","p","e","S","c","r","i",
    "p","t",")"," ","*"," ","S","K","I","L","L","S",":"," ","J","a","v","a","S","c","r","i","p","t",
    ","," ","B","o","o","t","s","t","r","a","p",","," ","T","a","i","l","w","i","n","d"," ","C","S",
    "S"," ","&"," ","m","o","r","e">>

\* long enough, not garbled, but none of the three labels
UnlabelledOutput ==
  <<"J","o","h","n"," ","D","o","e"," ","i","s"," ","a"," ","f","r","o","n","t","e","n","d"," ","d",
    "e","v","e","l","o","p","e","r"," ","w","h","o"," ","b","u","i","l","d","s"," ","w","e","b"," ",
    "a","p","p","s"," ","u","s","i","n","g"," ","R","e","a","c","t",".","j","s"," ","a","n","d"," ",
    "m","o","d","e","r","n"," ","J","a","v","a","S","c","r","i","p","t"," ","f","o","r"," ","m","a",
    "n","y"," ","h","a","p","p","y"," ","c","l","i","e","n","t","s",".">>

\* long enough and labelled, with a run of digits
GarbledOutput ==
  <<"P","R","O","F","E","S","S","I","O","N","A","L"," ","E","X","P","E","R","I","E","N","C","E"," ",
    "s","i","n","c","e"," ","2","0","1","9"," ","a","t"," ","a"," ","l","a","r","g","e"," ","s","o",
    "f","t","w","a","r","e"," ","c","o","m","p","a","n","y",","," ","b","u","i","l","d","i","n","g",
    " ","w","e","b"," ","a","p","p","s"," ","w","i","t","h"," ","R","e","a","c","t",".","j","s"," ",
    "a","n","d"," ","m","o","d","e","r","n"," ","J","a","v","a","S","c","r","i","p","t",".">>

ShortOutput == <<"S","K","I","L","L","S",":"," ","J","a","v","a","S","c","r","i","p","t">>

JobValues ==
  { Undefined, Null, Num(42), Str(<< >>), Str(<<" "," ","\n"," ">>),
    Str(ScenarioJob), Str(EightJob), Str(ManyJob), Str(ShortJob), Str(NoKeywordJob) }

ResumeValues ==
  { Undefined, Num(7), Str(<<" ","\n">>), Str(ScenarioResume), Str(FullResume) }

\* the bodies request.json() can resolve to: null, or an object;
\* useAlternative defaults to false
Bodies ==
  { Null } \cup
  [ jobDescription : JobValues, resumeText : ResumeValues, useAlternative : BOOLEAN ]

\* what the summarizer resolves to: something without output[0].summary_text,
\* or an array whose first element carries the text
NoSummary == [ kind |-> "none" ]

\* the summarizer has not resolved
NoOutput == [ kind |-> "pending" ]

Outputs ==
  { NoSummary, Str(<< >>), Str(ShortOutput), Str(GoodOutput),
    Str(UnlabelledOutput), Str(GarbledOutput) }

(***************************************************************************)
(* The responses of the generate-resume endpoint.                          *)
(***************************************************************************)
NoBody == [ jobDescription |-> Undefined, resumeText |-> Undefined, useAlternative |-> FALSE ]

NoResponse == [ status |-> 0 ]

MaxJobChars == 300

MaxResumeChars == 800

MaxLength == 300

MinLength == 100

\* the prompt and the options handed to the summarizer
focusedPrompt(b) ==
  [ op |-> "summarize",
    job |-> slice(b.jobDescription.text, MaxJobChars),
    resume |-> slice(b.resumeText.text, MaxResumeChars),
    max_length |-> MaxLength,
    min_length |-> MinLength ]

serviceLabel(useAlternative) ==
  IF useAlternative THEN "DistilBART-Large" ELSE "DistilBART-CNN"

\* the body of the inner try once the summarizer has resolved to output
modelResponse(b, kw, out) ==
  LET generatedText == IF out.kind = "string" THEN out.text ELSE << >>
      finalResume == cleanAndStructureText(generatedText, b.resumeText.text)
      matchScore == calculateMatchScore(kw, finalResume)
  IN  [ status |-> 200,
        tailoredResume |-> finalResume,
        keywords |-> slice(kw, ShownKeywords),
        improvements |-> generateImprovements(matchScore, b.useAlternative),
        matchScore |-> matchScore,
        timestamp |-> Now,
        service |-> serviceLabel(b.useAlternative) ]

\* an inner catch that rethrows, so that the outer catch answers
fallbackResponseRethrown(b, kw) ==
  [ status |-> 500, error |-> "Resume generation failed: model error", timestamp |-> Now ]

\* the catch of the inner try
fallbackResponse(b, kw) ==
  LET enhancedResume == enhanceResumeWithKeywords(b.resumeText.text, kw)
  IN  [ status |-> 200,
        tailoredResume |-> enhancedResume,
        keywords |-> slice(kw, ShownKeywords),
        improvements |-> FallbackImprovements,
        matchScore |-> calculateMatchScore(kw, enhancedResume),
        timestamp |-> Now,
        service |-> "Enhanced Original (Fallback)" ]

\* bodies request.json() rejects: the text is not JSON
MalformedBodies ==
  { "", "{bad", "not json", "undefined", "{\"jobDescription\": \"x\"", "{\"userId\": \"u\"" }

\* the message of the SyntaxError JSON.parse throws for the text
syntaxErrorMessage(text) ==
  CASE text = "" -> "Unexpected end of JSON input"
    [] text = "{bad" ->
         "Expected property name or '}' in JSON at position 1"
    [] text = "not json" -> "Unexpected token 'o', \"not json\" is not valid JSON"
    [] text = "undefined" -> "\"undefined\" is not valid JSON"
    [] text = "{\"jobDescription\": \"x\"" ->
         "Expected ',' or '}' after property value in JSON at position 22"
    [] text = "{\"userId\": \"u\"" ->
         "Expected ',' or '}' after property value in JSON at position 14"

badRequest ==
  [ status |-> 400, error |-> "Both job description and resume text are required" ]

\* the catch of the outer try
serverError(message) ==
  [ status |-> 500, error |-> "Resume generation failed: " \o message, timestamp |-> Now ]

(***************************************************************************)
(* The save-resume endpoint: the inputs and the pure helpers.              *)
(***************************************************************************)
HexDigits ==
  << "0","1","2","3","4","5","6","7","8","9","a","b","c","d","e","f" >>

\* ObjectId.toString(): the 24 hexadecimal digits of the identifier
toHexString(id) ==
  [ i \in 1..24 |->
      IF 24 - i > 6 THEN "0" ELSE HexDigits[((id \div (16 ^ (24 - i))) % 16) + 1] ]

\* jobDesc.split("\n").filter((line) => line.trim())
nonBlankLines(jobDesc) ==
  LET lines == splitLines(jobDesc)
  IN  filterIdx(lines, { i \in DOMAIN lines : trim(lines[i]) # << >> })

\* lines.find(...): the index of the first line whose lowercase text includes
\* one of the marks; 0 when there is none
findLine(lines, marks) ==
  firstIndex([ i \in 1..Len(lines) |->
                 \E m \in marks : includes(toLowerCase(lines[i]), m) ],
             1, Len(lines))

\* line.split(":")[1]?.trim(), the empty text when there is no second piece
afterColon(line) ==
  LET pieces == splitOn(line, ":")
  IN  IF Len(pieces) >= 2 THEN trim(pieces[2]) ELSE << >>

extractJobTitle(jobDesc) ==
  LET lines == nonBlankLines(jobDesc)
      t == findLine(lines, { <<"t","i","t","l","e",":">>, <<"p","o","s","i","t","i","o","n",":">>, <<
                                                                                                     "r",
                                                                                                     "o",
                                                                                                     "l",
                                                                                                     "e",
                                                                                                     ":">> })
      firstLine == IF lines = << >> THEN <<"U","n","k","n","o","w","n"," ","P","o","s","i","t","i",
                                           "o","n">> ELSE trim(lines[1])
  IN  IF t # 0 /\ afterColon(lines[t]) # << >> THEN afterColon(lines[t]) ELSE firstLine

extractCompanyName(jobDesc) ==
  LET lines == nonBlankLines(jobDesc)
      c == findLine(lines, { <<"c","o","m","p","a","n","y",":">>, <<"o","r","g","a","n","i","z","a",
                                                                    "t","i","o","n",":">> })
      p == findLine(lines, { <<"i","n","c",".">>, <<"c","o","r","p",".">>, <<"l","t","d",".">>, <<
                                                                                                  "l",
                                                                                                  "l",
                                                                                                  "c">> })
  IN  IF c # 0
        THEN IF afterColon(lines[c]) # << >> THEN afterColon(lines[c])
             ELSE <<"U","n","k","n","o","w","n"," ","C","o","m","p","a","n","y">>
      ELSE IF p # 0 THEN trim(lines[p])
      ELSE <<"U","n","k","n","o","w","n"," ","C","o","m","p","a","n","y">>

\* a JSON array of texts
Arr(items) == [ kind |-> "array", items |-> items ]

\* v || 0: v itself unless v is falsy; the value is kept as the JSON value
\* it is, a text where the request sent a text
orZero(v) == IF falsy(v) THEN Num(0) ELSE v

\* v || []: v itself unless v is falsy
orEmpty(v) == IF falsy(v) THEN Arr(<< >>) ELSE v

TitledPosting ==
  <<"A","c","m","e"," ","I","n","c","."," ","i","s"," ","h","i","r","i","n","g","\n","R","o","l",
    "e",":"," ","F","r","o","n","t","e","n","d"," ","D","e","v","e","l","o","p","e","r","\n","C",
    "o","m","p","a","n","y",":"," ","A","c","m","e","\n","R","e","a","c","t"," ","a","n","d"," ",
    "T","y","p","e","S","c","r","i","p","t">>

PlainPosting == <<"R","e","a","c","t"," ","D","e","v","e","l","o","p","e","r","\n","\n","G","l","o",
                  "b","e","x"," ","L","L","C",","," ","r","e","m","o","t","e">>

SampleText == <<"J","a","n","e"," ","R","o","e","\n","S","k","i","l","l","s","\n","J","a","v","a",
                "S","c","r","i","p","t">>

TailoredText == <<"J","a","n","e"," ","R","o","e","\n","\n","T","E","C","H","N","I","C","A","L"," ",
                  "S","K","I","L","L","S","\n","J","a","v","a","S","c","r","i","p","t",","," ","T",
                  "y","p","e","S","c","r","i","p","t">>

SavedKeywords == << <<"R","e","a","c","t">>, <<"T","y","p","e","S","c","r","i","p","t">> >>

SavedImprovements ==
  << <<"E","n","h","a","n","c","e","d"," ","t","e","c","h","n","i","c","a","l"," ","s","k","i","l",
       "l","s"," ","s","e","c","t","i","o","n"," ","w","i","t","h"," ","m","o","d","e","r","n"," ",
       "f","r","a","m","e","w","o","r","k","s">> >>

\* the body handleSave sends: the result of a generation, with its score,
\* its keywords and its improvements
ClientSaveBody ==
  [ userId |-> Str(<<"u","s","e","r","-","1">>), jobDescription |-> Str(TitledPosting),
    sampleResume |-> Str(SampleText), tailoredResume |-> Str(TailoredText),
    matchScore |-> Num(88), keywords |-> Arr(SavedKeywords),
    improvements |-> Arr(SavedImprovements) ]

\* a body whose jobDescription is present and is not a text
NumberSaveBody ==
  [ userId |-> Str(<<"u","s","e","r","-","1">>), jobDescription |-> Num(42),
    sampleResume |-> Str(<<"s">>), tailoredResume |-> Str(<<"t">>),
    matchScore |-> Undefined, keywords |-> Undefined, improvements |-> Undefined ]

\* the bodies request.json() of the save route can resolve to: null; the
\* body of the client, also with the score as a string or with an empty list
\* of keywords; a body with a number for jobDescription; and objects without
\* score, keywords and improvements, in most of which a required field is
\* missing or empty
SaveBodies ==
  { Null, ClientSaveBody, NumberSaveBody,
    [ ClientSaveBody EXCEPT !.matchScore = Str(<<"8","8">>), !.keywords = Arr(<< >>),
                            !.improvements = Null ] }
  \cup
  [ userId : { Undefined, Str(<< >>), Str(<<"u","s","e","r","-","1">>) },
    jobDescription : { Undefined, Str(<< >>), Str(TitledPosting), Str(PlainPosting) },
    sampleResume : { Undefined, Str(SampleText) },
    tailoredResume : { Str(<< >>), Str(TailoredText) },
    matchScore : { Undefined },
    keywords : { Undefined },
    improvements : { Undefined } ]

NoSaveBody ==
  [ userId |-> Undefined, jobDescription |-> Undefined, sampleResume |-> Undefined,
    tailoredResume |-> Undefined, matchScore |-> Undefined, keywords |-> Undefined,
    improvements |-> Undefined ]

\* the messages of the errors the stores raise
MongoErrors == { "connection closed" }

SupabaseErrors == { "permission denied" }

missingFields == [ status |-> 400, error |-> "Missing required fields" ]

\* the catch of the save route, for an Error with this message
saveFailed(message) == [ status |-> 500, error |-> message ]

\* the TypeError of jobDesc.split("\n") in extractJobTitle, for a jobDesc
\* that is not a string
SplitTypeError == "jobDesc.split is not a function"

saveSucceeded(mongoIds, jobId) ==
  [ status |-> 200,
    success |-> TRUE,
    mongoIds |-> mongoIds,
    supabaseJobId |-> jobId,
    message |-> "Resume data saved successfully" ]

\* the documents and the rows hold the fields of the body as the JSON values
\* they are: nothing on the way converts them
jobDescriptionDoc(id, b) ==
  [ _id |-> id, userId |-> b.userId, content |-> b.jobDescription,
    createdAt |-> Now ]

sampleResumeDoc(id, b) ==
  [ _id |-> id, userId |-> b.userId, content |-> b.sampleResume,
    createdAt |-> Now ]

tailoredResumeDoc(id, b, ids) ==
  [ _id |-> id,
    userId |-> b.userId,
    jobDescriptionId |-> ids.jobDescriptionId,
    sampleResumeId |-> ids.sampleResumeId,
    content |-> b.tailoredResume,
    matchScore |-> orZero(b.matchScore),
    keywords |-> orEmpty(b.keywords),
    improvements |-> orEmpty(b.improvements),
    createdAt |-> Now ]

\* a jobs row that carries the id of the sample resume document
jobRowOfSampleResume(id, b, ids) ==
  [ id |-> id,
    user_id |-> b.userId,
    mongo_job_description_id |-> toHexString(ids.sampleResumeId),
    job_title |-> extractJobTitle(b.jobDescription.text),
    company_name |-> extractCompanyName(b.jobDescription.text),
    created_at |-> Now ]

jobRow(id, b, ids) ==
  [ id |-> id,
    user_id |-> b.userId,
    mongo_job_description_id |-> toHexString(ids.jobDescriptionId),
    job_title |-> extractJobTitle(b.jobDescription.text),
    company_name |-> extractCompanyName(b.jobDescription.text),
    created_at |-> Now ]

generationRow(b, ids, jobId) ==
  [ user_id |-> b.userId,
    job_id |-> jobId,
    mongo_sample_resume_id |-> toHexString(ids.sampleResumeId),
    mongo_tailored_resume_id |-> toHexString(ids.tailoredResumeId),
    match_score |-> orZero(b.matchScore),
    generation_status |-> "completed",
    created_at |-> Now ]

NoIds == [ jobDescriptionId |-> 0, sampleResumeId |-> 0, tailoredResumeId |-> 0 ]

\* saveToMongo's document: the fields of data and createdAt
rawDataDoc(id, data) ==
  [ _id |-> id, jobDescription |-> data.jobDescription, resume |-> data.resume,
    createdAt |-> Now ]

\* id.toString() === hex, whatever the case of the digits of hex
hasId(doc, hex) == toHexString(doc._id) = lowerAscii(hex)

\* new ObjectId(hex) throws: hex is not made of 24 hexadecimal digits
\* (the texts of twelve characters, which some versions of the driver
\* accept, are not among the inputs)
invalidObjectId(hex) ==
  \/ Len(hex) # 24
  \/ \E i \in DOMAIN hex :
       lowerAscii(hex)[i] \notin { HexDigits[k] : k \in DOMAIN HexDigits }

\* collection.findOne({ _id }): the document, or null
findOne(docs, id) ==
  IF \E i \in DOMAIN docs : docs[i]._id = id
    THEN docs[CHOOSE i \in DOMAIN docs : docs[i]._id = id]
    ELSE Null

\* doc?.content || ""
contentOrEmpty(doc) ==
  IF doc = Null \/ falsy(doc.content) THEN Str(<< >>) ELSE doc.content

\* what getResumeById returns for the tailored resume document resume
resumeWithRelated(resume, jobDesc, sampleResume) ==
  [ _id |-> resume._id,
    userId |-> resume.userId,
    jobDescriptionId |-> resume.jobDescriptionId,
    sampleResumeId |-> resume.sampleResumeId,
    content |-> resume.content,
    matchScore |-> resume.matchScore,
    keywords |-> resume.keywords,
    improvements |-> resume.improvements,
    createdAt |-> resume.createdAt,
    jobDescription |-> contentOrEmpty(jobDesc),
    sampleResume |-> contentOrEmpty(sampleResume) ]

\* the orders in which find().sort({ createdAt: -1 }) can return the
\* documents at the places idx of docs: the clock is not modelled, documents
\* made in the same millisecond come in either order
sortedByDate(docs, idx) ==
  { [ k \in 1..Cardinality(idx) |-> docs[order[k]] ] :
      order \in { o \in [ 1..Cardinality(idx) -> idx ] :
                    \A j, k \in 1..Cardinality(idx) : j # k => o[j] # o[k] } }

\* the calls of the library made by other callers than the save route
LibCalls ==
  { [ fn |-> "getUserResumes", arg |-> <<"u","s","e","r","-","1">> ],
    [ fn |-> "getResumeById", arg |-> toHexString(3) ],
    [ fn |-> "getResumeById", arg |-> <<"n","o","t","-","a","n","-","i","d">> ],
    [ fn |-> "saveToMongo",
      arg |-> [ jobDescription |-> PlainPosting, resume |-> TailoredText ] ] }

NoLibCall == [ fn |-> "none", at |-> "idle", connecting |-> FALSE ]

\* the error new ObjectId() throws
InvalidObjectId == "input must be a 24 character hex string, 12 byte Uint8Array, or an integer"

(***************************************************************************)
(* The state.  Handlers are the slots in which a request of either         *)
(* endpoint is handled; the model handles, the connection flag, the        *)
(* document store and the metadata store are shared by all of them.        *)
(***************************************************************************)
Handlers == { 1, 2 }

\* the slot that takes the requests which arrive one after the other
Serial == { 1 }

\* summarizer === null
NullHandle == [ loadedBy |-> 0 ]

\* the pipeline that the call of pipeline() by r resolved to
newHandle(r) == [ loadedBy |-> r ]

\* no request of that kind is in flight
NoRequest == [ kind |-> "none" ]

\* the component as useState() leaves it on the first render
InitialComponent ==
  [ jobDescription |-> << >>, resumeText |-> << >>, result |-> Null,
    loading |-> FALSE, saving |-> FALSE, error |-> "", useAlternative |-> FALSE,
    saved |-> FALSE ]

\* nothing generated, nothing shown, nothing saved
NoHistory ==
  [ shown |-> NoRequest, saving |-> NoRequest, ofShown |-> FALSE, savedShown |-> FALSE ]

\* the setTimeout callbacks pending at one time
MaxTimers == 2

\* the save requests and library calls received in one behaviour
MaxSaves == 2

VARIABLES
  summarizer,             \* the cached model handle: NullHandle or a pipeline
  alternativeSummarizer,  \* the cached alternative handle
  pc,                     \* pc[r]: where the generate handler r stands
  body,                   \* body[r]: the request body of r
  keywords,               \* keywords[r]: extractKeywords(jobDescription)
  loading,                \* loading[r]: r has called pipeline() and awaits it
  modelSummarizer,        \* modelSummarizer[r]: the handle getSummarizer() returned to r
  calls,                  \* calls[r]: what r has called so far, in order
  output,                 \* output[r]: what the summarizer resolved to for r
  response,               \* response[r]: the response of r; status 0 before it
  isConnected,            \* the flag of connectToMongo
  mongo,                  \* the documents of the four collections, in insertion order
  supabase,               \* the rows of the two tables, in insertion order
  spc,                    \* spc[s]: where the save handler s stands
  sbody,                  \* sbody[s]: the request body of s
  connecting,             \* connecting[s]: s has called client.connect() and awaits it
  mongoResult,            \* mongoResult[s]: the identifiers s has inserted so far
  jobData,                \* jobData[s]: the id of the jobs row s inserted; 0 before
  attempted,              \* attempted[s]: the collections and tables s called insert on
  writes,                 \* writes[s]: the inserts of s that succeeded, in order
  sresponse,              \* sresponse[s]: the response of s; status 0 before it
  saves,                  \* the save requests and the library calls received so far
  connects,               \* the calls of client.connect() made so far
  pPc,                    \* where the call of parseResumeIntoSections stands
  pFrom,                  \* what pText is: "raw" or the output of reconstructResume
  pText,                  \* the resume parseResumeIntoSections was called with
  pLines,                 \* its lines: trimmed, the empty ones removed
  pIndex,                 \* the number of lines the loop has handled
  pState,                 \* sections, currentSection and headerComplete
  pSections,              \* the sections reconstructResume was called with
  pRebuilt,               \* the text reconstructResume returned
  fnName,                 \* the function of the route called on its own
  fnArg,                  \* its argument
  fnResult,               \* what it returned
  lib,                    \* lib[c]: the call of getUserResumes, getResumeById or
                          \* saveToMongo made by caller c, and where it stands
  component,              \* the state of the ResumeGenerator component in the browser
  generateRequest,        \* the body of the generate request in flight, or NoRequest
  saveRequest,            \* the save the component awaits, or NoRequest
  timers,                 \* the pending setTimeout callbacks that clear saved
  history                 \* which generation is shown, which was saved, what was sent

genVars ==
  << summarizer, alternativeSummarizer, pc, body, keywords, loading, modelSummarizer,
     calls, output, response >>

saveVars ==
  << isConnected, mongo, supabase, spc, sbody, connecting, mongoResult, jobData,
     attempted, writes, sresponse, saves, connects >>

parseVars == << pPc, pFrom, pText, pLines, pIndex, pState, pSections, pRebuilt >>

fnVars == << fnName, fnArg, fnResult >>

libVars == << lib >>

clientVars == << component, generateRequest, saveRequest, timers, history >>

vars == << genVars, saveVars, parseVars, fnVars, libVars, clientVars >>

Init ==
  /\ summarizer = NullHandle
  /\ alternativeSummarizer = NullHandle
  /\ pc = [ r \in Handlers |-> "idle" ]
  /\ body = [ r \in Handlers |-> NoBody ]
  /\ keywords = [ r \in Handlers |-> << >> ]
  /\ loading = [ r \in Handlers |-> FALSE ]
  /\ modelSummarizer = [ r \in Handlers |-> NullHandle ]
  /\ calls = [ r \in Handlers |-> << >> ]
  /\ output = [ r \in Handlers |-> NoOutput ]
  /\ response = [ r \in Handlers |-> NoResponse ]
  /\ isConnected = FALSE
  /\ mongo = [ job_descriptions |-> << >>, sample_resumes |-> << >>,
               tailored_resumes |-> << >>, raw_data |-> << >> ]
  /\ supabase = [ jobs |-> << >>, resume_generations |-> << >> ]
  /\ spc = [ s \in Handlers |-> "idle" ]
  /\ sbody = [ s \in Handlers |-> NoSaveBody ]
  /\ connecting = [ s \in Handlers |-> FALSE ]
  /\ mongoResult = [ s \in Handlers |-> NoIds ]
  /\ jobData = [ s \in Handlers |-> 0 ]
  /\ attempted = [ s \in Handlers |-> << >> ]
  /\ writes = [ s \in Handlers |-> << >> ]
  /\ sresponse = [ s \in Handlers |-> NoResponse ]
  /\ saves = 0
  /\ connects = 0
  /\ pPc = "idle"
  /\ pFrom = "raw"
  /\ pText = << >>
  /\ pLines = << >>
  /\ pIndex = 0
  /\ pState = FirstIteration
  /\ pSections = EmptySections
  /\ pRebuilt = << >>
  /\ fnName = "none"
  /\ fnArg = << >>
  /\ fnResult = << >>
  /\ lib = [ c \in Handlers |-> NoLibCall ]
  /\ component = InitialComponent
  /\ generateRequest = NoRequest
  /\ saveRequest = NoRequest
  /\ timers = 0
  /\ history = NoHistory

\* A request arrives at an idle handler and request.json() resolves to b.
Receive(r, b) ==
  /\ pc[r] = "idle"
  /\ pc' = [ pc EXCEPT ![r] = "parsed" ]
  /\ body' = [ body EXCEPT ![r] = b ]
  /\ keywords' = [ keywords EXCEPT ![r] = << >> ]
  /\ loading' = [ loading EXCEPT ![r] = FALSE ]
  /\ modelSummarizer' = [ modelSummarizer EXCEPT ![r] = NullHandle ]
  /\ calls' = [ calls EXCEPT ![r] = << >> ]
  /\ output' = [ output EXCEPT ![r] = NoOutput ]
  /\ response' = [ response EXCEPT ![r] = NoResponse ]
  /\ UNCHANGED << summarizer, alternativeSummarizer >>
  /\ UNCHANGED << saveVars, parseVars, fnVars, libVars, clientVars >>

\* request.json() rejects: the body is not JSON, and the outer catch answers
\* with the message of the SyntaxError.
RejectBody(r, text) ==
  /\ pc[r] = "idle"
  /\ pc' = [ pc EXCEPT ![r] = "done" ]
  /\ body' = [ body EXCEPT ![r] = NoBody ]
  /\ keywords' = [ keywords EXCEPT ![r] = << >> ]
  /\ loading' = [ loading EXCEPT ![r] = FALSE ]
  /\ modelSummarizer' = [ modelSummarizer EXCEPT ![r] = NullHandle ]
  /\ calls' = [ calls EXCEPT ![r] = << >> ]
  /\ output' = [ output EXCEPT ![r] = NoOutput ]
  /\ response' = [ response EXCEPT ![r] = serverError(syntaxErrorMessage(text)) ]
  /\ UNCHANGED << summarizer, alternativeSummarizer >>
  /\ UNCHANGED << saveVars, parseVars, fnVars, libVars, clientVars >>

\* The handle getSummarizer() or getAlternativeSummarizer() looks at.
handleOf(b) == IF b.useAlternative THEN alternativeSummarizer ELSE summarizer

modelName(b) ==
  IF b.useAlternative THEN "Xenova/bart-large-cnn" ELSE "Xenova/distilbart-cnn-6-6"

\* From the body to the first await: the destructuring of the body, the
\* validation, extractKeywords, and the call of getSummarizer(), which calls
\* pipeline() when no handle is cached and returns the cached handle otherwise.
Validate(r) ==
  /\ pc[r] = "parsed"
  /\ LET b == body[r]
     IN  IF b = Null
           THEN /\ response' = [ response EXCEPT ![r] = serverError(
                     "Cannot destructure property 'jobDescription' of 'requestData' as it is null.") ]
                /\ pc' = [ pc EXCEPT ![r] = "done" ]
                /\ UNCHANGED << keywords, loading, modelSummarizer, calls >>
         ELSE IF trimThrows(b.jobDescription)
           THEN /\ response' = [ response EXCEPT ![r] =
                                   serverError("jobDescription?.trim is not a function") ]
                /\ pc' = [ pc EXCEPT ![r] = "done" ]
                /\ UNCHANGED << keywords, loading, modelSummarizer, calls >>
         ELSE IF ~blank(b.jobDescription) /\ trimThrows(b.resumeText)
           THEN /\ response' = [ response EXCEPT ![r] =
                                   serverError("resumeText?.trim is not a function") ]
                /\ pc' = [ pc EXCEPT ![r] = "done" ]
                /\ UNCHANGED << keywords, loading, modelSummarizer, calls >>
         ELSE IF blank(b.jobDescription) \/ blank(b.resumeText)
           THEN /\ response' = [ response EXCEPT ![r] = badRequest ]
                /\ pc' = [ pc EXCEPT ![r] = "done" ]
                /\ UNCHANGED << keywords, loading, modelSummarizer, calls >>
         ELSE /\ keywords' = [ keywords EXCEPT ![r] = extractKeywords(b.jobDescription.text) ]
              /\ loading' = [ loading EXCEPT ![r] = handleOf(b) = NullHandle ]
              /\ modelSummarizer' = [ modelSummarizer EXCEPT ![r] = handleOf(b) ]
              /\ calls' = [ calls EXCEPT ![r] =
                              << [ op |-> "extractKeywords" ] >>
                              \o (IF handleOf(b) = NullHandle
                                    THEN << [ op |-> "pipeline", model |-> modelName(b) ] >>
                                    ELSE << >>) ]
              /\ pc' = [ pc EXCEPT ![r] = IF handleOf(b) = NullHandle THEN "init" ELSE "ready" ]
              /\ UNCHANGED response
  /\ UNCHANGED << summarizer, alternativeSummarizer, body, output >>
  /\ UNCHANGED << saveVars, parseVars, fnVars, libVars, clientVars >>

\* a getSummarizer() that returns the pipeline without storing it
InitDoneUncached(r) ==
  /\ pc[r] = "init"
  /\ loading' = [ loading EXCEPT ![r] = FALSE ]
  /\ modelSummarizer' = [ modelSummarizer EXCEPT ![r] = newHandle(r) ]
  /\ pc' = [ pc EXCEPT ![r] = "ready" ]
  /\ UNCHANGED << summarizer, alternativeSummarizer, body, keywords, calls, output,
                  response >>
  /\ UNCHANGED << saveVars, parseVars, fnVars, libVars, clientVars >>

\* pipeline() resolves and getSummarizer() goes on: it stores the handle r
\* loaded and returns it.  The handler itself resumes in a later step.
InitDone(r) ==
  /\ pc[r] = "init"
  /\ summarizer' = IF body[r].useAlternative THEN summarizer ELSE newHandle(r)
  /\ alternativeSummarizer' =
       IF body[r].useAlternative THEN newHandle(r) ELSE alternativeSummarizer
  /\ loading' = [ loading EXCEPT ![r] = FALSE ]
  /\ modelSummarizer' = [ modelSummarizer EXCEPT ![r] = newHandle(r) ]
  /\ pc' = [ pc EXCEPT ![r] = "ready" ]
  /\ UNCHANGED << body, keywords, calls, output, response >>
  /\ UNCHANGED << saveVars, parseVars, fnVars, libVars, clientVars >>

\* The handler resumes after await getSummarizer(): it builds the prompt and
\* calls the handle it was given.
CallSummarizer(r) ==
  /\ pc[r] = "ready"
  /\ calls' = [ calls EXCEPT ![r] = Append(@, focusedPrompt(body[r])) ]
  /\ pc' = [ pc EXCEPT ![r] = "call" ]
  /\ UNCHANGED << summarizer, alternativeSummarizer, body, keywords, loading,
                  modelSummarizer, output, response >>
  /\ UNCHANGED << saveVars, parseVars, fnVars, libVars, clientVars >>

\* pipeline() rejects: the inner catch answers with the enhanced original.
InitThrows(r) ==
  /\ pc[r] = "init"
  /\ loading' = [ loading EXCEPT ![r] = FALSE ]
  /\ response' = [ response EXCEPT ![r] = fallbackResponse(body[r], keywords[r]) ]
  /\ pc' = [ pc EXCEPT ![r] = "done" ]
  /\ UNCHANGED << summarizer, alternativeSummarizer, body, keywords, modelSummarizer,
                  calls, output >>
  /\ UNCHANGED << saveVars, parseVars, fnVars, libVars, clientVars >>

\* The summarizer resolves to output.
CallReturns(r, out) ==
  /\ pc[r] = "call"
  /\ output' = [ output EXCEPT ![r] = out ]
  /\ response' = [ response EXCEPT ![r] = modelResponse(body[r], keywords[r], out) ]
  /\ pc' = [ pc EXCEPT ![r] = "done" ]
  /\ UNCHANGED << summarizer, alternativeSummarizer, body, keywords, loading,
                  modelSummarizer, calls >>
  /\ UNCHANGED << saveVars, parseVars, fnVars, libVars, clientVars >>

\* a handler that calls the summarizer again when the call rejects
CallThrowsRetried(r) ==
  /\ pc[r] = "call"
  /\ Cardinality({ i \in DOMAIN calls[r] : calls[r][i].op = "summarize" }) < 3
  /\ calls' = [ calls EXCEPT ![r] = Append(@, focusedPrompt(body[r])) ]
  /\ UNCHANGED << summarizer, alternativeSummarizer, pc, body, keywords, loading,
                  modelSummarizer, output, response >>
  /\ UNCHANGED << saveVars, parseVars, fnVars, libVars, clientVars >>

\* The summarizer rejects: the inner catch answers with the enhanced original.
CallThrows(r) ==
  /\ pc[r] = "call"
  /\ response' = [ response EXCEPT ![r] = fallbackResponse(body[r], keywords[r]) ]
  /\ pc' = [ pc EXCEPT ![r] = "done" ]
  /\ UNCHANGED << summarizer, alternativeSummarizer, body, keywords, loading,
                  modelSummarizer, calls, output >>
  /\ UNCHANGED << saveVars, parseVars, fnVars, libVars, clientVars >>

\* The response has been sent: the handler returns and its locals are gone.
Return(r) ==
  /\ pc[r] = "done"
  /\ pc' = [ pc EXCEPT ![r] = "idle" ]
  /\ body' = [ body EXCEPT ![r] = NoBody ]
  /\ keywords' = [ keywords EXCEPT ![r] = << >> ]
  /\ loading' = [ loading EXCEPT ![r] = FALSE ]
  /\ modelSummarizer' = [ modelSummarizer EXCEPT ![r] = NullHandle ]
  /\ calls' = [ calls EXCEPT ![r] = << >> ]
  /\ output' = [ output EXCEPT ![r] = NoOutput ]
  /\ response' = [ response EXCEPT ![r] = NoResponse ]
  /\ UNCHANGED << summarizer, alternativeSummarizer >>
  /\ UNCHANGED << saveVars, parseVars, fnVars, libVars, clientVars >>

\* the steps of the generate-resume endpoint, one request at a time
Next ==
  \E r \in Serial :
    \/ \E b \in Bodies : Receive(r, b)
    \/ \E text \in MalformedBodies : RejectBody(r, text)
    \/ Validate(r)
    \/ InitDone(r)
    \/ InitThrows(r)
    \/ CallSummarizer(r)
    \/ \E out \in Outputs : CallReturns(r, out)
    \/ CallThrows(r)
    \/ Return(r)

Spec == Init /\ [][Next]_vars

\* the bodies and the summarizer outputs of the requests that race
RaceBodies ==
  [ jobDescription : { Str(ShortJob) },
    resumeText : { Str(ScenarioResume) },
    useAlternative : BOOLEAN ]

RaceOutputs == { NoSummary }

\* the steps of the generate-resume endpoint with requests handled
\* concurrently: every await is a point where another handler may run
RaceNext ==
  \E r \in Handlers :
    \/ \E b \in RaceBodies : Receive(r, b)
    \/ \E text \in MalformedBodies : RejectBody(r, text)
    \/ Validate(r)
    \/ InitDone(r)
    \/ InitThrows(r)
    \/ CallSummarizer(r)
    \/ \E out \in RaceOutputs : CallReturns(r, out)
    \/ CallThrows(r)
    \/ Return(r)

SpecRace == Init /\ [][RaceNext]_vars


(***************************************************************************)
(* The save-resume endpoint.                                               *)
(***************************************************************************)
\* the identifier of the next document: ObjectIds are never reused
newObjectId ==
  Len(mongo.job_descriptions) + Len(mongo.sample_resumes) + Len(mongo.tailored_resumes)
    + Len(mongo.raw_data) + 1

\* the id the metadata store gives the next jobs row
newJobId == Len(supabase.jobs) + 1

\* A save request arrives at an idle handler and request.json() resolves to b.
SaveReceive(s, b) ==
  /\ spc[s] = "idle"
  /\ saves < MaxSaves
  /\ saves' = saves + 1
  /\ spc' = [ spc EXCEPT ![s] = "parsed" ]
  /\ sbody' = [ sbody EXCEPT ![s] = b ]
  /\ UNCHANGED << isConnected, mongo, supabase, connecting, mongoResult, jobData,
                  writes, sresponse >>
  /\ UNCHANGED attempted
  /\ UNCHANGED connects
  /\ UNCHANGED << genVars, parseVars, fnVars, libVars, clientVars >>

\* request.json() rejects: the catch answers 500 with the message of the
\* SyntaxError before anything is written.
SaveRejectBody(s, text) ==
  /\ spc[s] = "idle"
  /\ saves < MaxSaves
  /\ saves' = saves + 1
  /\ spc' = [ spc EXCEPT ![s] = "done" ]
  /\ sresponse' = [ sresponse EXCEPT ![s] = saveFailed(syntaxErrorMessage(text)) ]
  /\ UNCHANGED << isConnected, mongo, supabase, sbody, connecting, mongoResult,
                  jobData, writes >>
  /\ UNCHANGED attempted
  /\ UNCHANGED connects
  /\ UNCHANGED << genVars, parseVars, fnVars, libVars, clientVars >>

\* The destructuring of the body and the validation; a valid request calls saveResumeData, which calls
\* connectToMongo, which calls client.connect() when the flag is not set.
SaveValidate(s) ==
  /\ spc[s] = "parsed"
  /\ LET b == sbody[s]
     IN  IF b = Null
           THEN /\ sresponse' = [ sresponse EXCEPT ![s] = saveFailed(
                     "Cannot destructure property 'userId' of 'body' as it is null.") ]
                /\ spc' = [ spc EXCEPT ![s] = "done" ]
                /\ UNCHANGED << connecting, connects >>
         ELSE IF \/ falsy(b.userId)
            \/ falsy(b.jobDescription)
            \/ falsy(b.sampleResume)
            \/ falsy(b.tailoredResume)
           THEN /\ sresponse' = [ sresponse EXCEPT ![s] = missingFields ]
                /\ spc' = [ spc EXCEPT ![s] = "done" ]
                /\ UNCHANGED << connecting, connects >>
           ELSE /\ connecting' = [ connecting EXCEPT ![s] = ~isConnected ]
                /\ spc' = [ spc EXCEPT ![s] = "connect" ]
                /\ connects' = IF isConnected THEN connects ELSE connects + 1
                /\ UNCHANGED sresponse
  /\ UNCHANGED << isConnected, mongo, supabase, sbody, mongoResult, jobData, writes,
                  saves >>
  /\ UNCHANGED attempted
  /\ UNCHANGED << genVars, parseVars, fnVars, libVars, clientVars >>

\* connectToMongo resolves: the flag is set if s connected.
ConnectDone(s) ==
  /\ spc[s] = "connect"
  /\ isConnected' = (isConnected \/ connecting[s])
  /\ connecting' = [ connecting EXCEPT ![s] = FALSE ]
  /\ spc' = [ spc EXCEPT ![s] = "job_descriptions" ]
  /\ UNCHANGED << mongo, supabase, sbody, mongoResult, jobData, writes, sresponse, saves >>
  /\ UNCHANGED attempted
  /\ UNCHANGED connects
  /\ UNCHANGED << genVars, parseVars, fnVars, libVars, clientVars >>

\* client.connect() or one of the three insertOne calls rejects:
\* saveResumeData logs and rethrows, the route answers 500 with the message.
MongoThrows(s, m) ==
  /\ \/ spc[s] = "connect" /\ connecting[s]
     \/ spc[s] \in { "job_descriptions", "sample_resumes", "tailored_resumes" }
  /\ attempted' = [ attempted EXCEPT ![s] =
                      IF spc[s] = "connect" THEN @ ELSE Append(@, spc[s]) ]
  /\ connecting' = [ connecting EXCEPT ![s] = FALSE ]
  /\ sresponse' = [ sresponse EXCEPT ![s] = saveFailed(m) ]
  /\ spc' = [ spc EXCEPT ![s] = "done" ]
  /\ UNCHANGED << isConnected, mongo, supabase, sbody, mongoResult, jobData, writes,
                  saves >>
  /\ UNCHANGED connects
  /\ UNCHANGED << genVars, parseVars, fnVars, libVars, clientVars >>

InsertJobDescription(s) ==
  /\ spc[s] = "job_descriptions"
  /\ mongo' = [ mongo EXCEPT !.job_descriptions =
                  Append(@, jobDescriptionDoc(newObjectId, sbody[s])) ]
  /\ mongoResult' = [ mongoResult EXCEPT ![s].jobDescriptionId = newObjectId ]
  /\ attempted' = [ attempted EXCEPT ![s] = Append(@, "job_descriptions") ]
  /\ writes' = [ writes EXCEPT ![s] =
                   Append(@, [ into |-> "job_descriptions", id |-> newObjectId ]) ]
  /\ spc' = [ spc EXCEPT ![s] = "sample_resumes" ]
  /\ UNCHANGED << isConnected, supabase, sbody, connecting, jobData, sresponse, saves >>
  /\ UNCHANGED connects
  /\ UNCHANGED << genVars, parseVars, fnVars, libVars, clientVars >>

InsertSampleResume(s) ==
  /\ spc[s] = "sample_resumes"
  /\ mongo' = [ mongo EXCEPT !.sample_resumes =
                  Append(@, sampleResumeDoc(newObjectId, sbody[s])) ]
  /\ mongoResult' = [ mongoResult EXCEPT ![s].sampleResumeId = newObjectId ]
  /\ attempted' = [ attempted EXCEPT ![s] = Append(@, "sample_resumes") ]
  /\ writes' = [ writes EXCEPT ![s] =
                   Append(@, [ into |-> "sample_resumes", id |-> newObjectId ]) ]
  /\ spc' = [ spc EXCEPT ![s] = "tailored_resumes" ]
  /\ UNCHANGED << isConnected, supabase, sbody, connecting, jobData, sresponse, saves >>
  /\ UNCHANGED connects
  /\ UNCHANGED << genVars, parseVars, fnVars, libVars, clientVars >>

\* The third insert; saveResumeData returns the three identifiers to the
\* route.
InsertTailoredResume(s) ==
  /\ spc[s] = "tailored_resumes"
  /\ mongo' = [ mongo EXCEPT !.tailored_resumes =
                  Append(@, tailoredResumeDoc(newObjectId, sbody[s], mongoResult[s])) ]
  /\ mongoResult' = [ mongoResult EXCEPT ![s].tailoredResumeId = newObjectId ]
  /\ attempted' = [ attempted EXCEPT ![s] = Append(@, "tailored_resumes") ]
  /\ writes' = [ writes EXCEPT ![s] =
                   Append(@, [ into |-> "tailored_resumes", id |-> newObjectId ]) ]
  /\ spc' = [ spc EXCEPT ![s] = "jobs" ]
  /\ UNCHANGED << isConnected, supabase, sbody, connecting, jobData, sresponse, saves >>
  /\ UNCHANGED connects
  /\ UNCHANGED << genVars, parseVars, fnVars, libVars, clientVars >>

\* The route goes on after saveResumeData and builds the jobs row:
\* extractJobTitle(jobDescription) throws at jobDesc.split for a
\* jobDescription that is not a string, and the catch answers 500 with no
\* call of the metadata store.
ExtractJobTitleThrows(s) ==
  /\ spc[s] = "jobs"
  /\ sbody[s].jobDescription.kind # "string"
  /\ sresponse' = [ sresponse EXCEPT ![s] = saveFailed(SplitTypeError) ]
  /\ spc' = [ spc EXCEPT ![s] = "done" ]
  /\ UNCHANGED << isConnected, mongo, supabase, sbody, connecting, mongoResult,
                  jobData, writes, saves >>
  /\ UNCHANGED attempted
  /\ UNCHANGED connects
  /\ UNCHANGED << genVars, parseVars, fnVars, libVars, clientVars >>

\* The jobs row is built, inserted and its id selected; the route starts the
\* insert into resume_generations.
InsertJob(s) ==
  /\ spc[s] = "jobs"
  /\ sbody[s].jobDescription.kind = "string"
  /\ supabase' = [ supabase EXCEPT !.jobs =
                     Append(@, jobRow(newJobId, sbody[s], mongoResult[s])) ]
  /\ jobData' = [ jobData EXCEPT ![s] = newJobId ]
  /\ attempted' = [ attempted EXCEPT ![s] = Append(@, "jobs") ]
  /\ writes' = [ writes EXCEPT ![s] = Append(@, [ into |-> "jobs", id |-> newJobId ]) ]
  /\ spc' = [ spc EXCEPT ![s] = "resume_generations" ]
  /\ UNCHANGED << isConnected, mongo, sbody, connecting, mongoResult, sresponse, saves >>
  /\ UNCHANGED connects
  /\ UNCHANGED << genVars, parseVars, fnVars, libVars, clientVars >>

\* a handler that goes on to resume_generations when jobError is set
JobErrorIgnored(s, m) ==
  /\ spc[s] = "jobs"
  /\ sbody[s].jobDescription.kind = "string"
  /\ attempted' = [ attempted EXCEPT ![s] = Append(@, "jobs") ]
  /\ spc' = [ spc EXCEPT ![s] = "resume_generations" ]
  /\ UNCHANGED << isConnected, mongo, supabase, sbody, connecting, mongoResult,
                  jobData, writes, sresponse, saves >>
  /\ UNCHANGED connects
  /\ UNCHANGED << genVars, parseVars, fnVars, libVars, clientVars >>

\* The insert into jobs comes back with jobError.
JobError(s, m) ==
  /\ spc[s] = "jobs"
  /\ sbody[s].jobDescription.kind = "string"
  /\ attempted' = [ attempted EXCEPT ![s] = Append(@, "jobs") ]
  /\ sresponse' = [ sresponse EXCEPT ![s] =
                      saveFailed("Failed to save job metadata: " \o m) ]
  /\ spc' = [ spc EXCEPT ![s] = "done" ]
  /\ UNCHANGED << isConnected, mongo, supabase, sbody, connecting, mongoResult,
                  jobData, writes, saves >>
  /\ UNCHANGED connects
  /\ UNCHANGED << genVars, parseVars, fnVars, libVars, clientVars >>

\* The resume_generations row is inserted: the route answers with success.
InsertGeneration(s) ==
  /\ spc[s] = "resume_generations"
  /\ supabase' = [ supabase EXCEPT !.resume_generations =
                     Append(@, generationRow(sbody[s], mongoResult[s], jobData[s])) ]
  /\ attempted' = [ attempted EXCEPT ![s] = Append(@, "resume_generations") ]
  /\ writes' = [ writes EXCEPT ![s] =
                   Append(@, [ into |-> "resume_generations",
                               id |-> Len(supabase.resume_generations) + 1 ]) ]
  /\ sresponse' = [ sresponse EXCEPT ![s] = saveSucceeded(mongoResult[s], jobData[s]) ]
  /\ spc' = [ spc EXCEPT ![s] = "done" ]
  /\ UNCHANGED << isConnected, mongo, sbody, connecting, mongoResult, jobData, saves >>
  /\ UNCHANGED connects
  /\ UNCHANGED << genVars, parseVars, fnVars, libVars, clientVars >>

\* a handler that deletes its jobs row when the second insert fails
GenerationErrorCompensated(s, m) ==
  /\ spc[s] = "resume_generations"
  /\ attempted' = [ attempted EXCEPT ![s] = Append(@, "resume_generations") ]
  /\ supabase' = [ supabase EXCEPT !.jobs = SubSeq(@, 1, Len(@) - 1) ]
  /\ sresponse' = [ sresponse EXCEPT ![s] =
                      saveFailed("Failed to save resume metadata: " \o m) ]
  /\ spc' = [ spc EXCEPT ![s] = "done" ]
  /\ UNCHANGED << isConnected, mongo, sbody, connecting, mongoResult, jobData, writes,
                  saves >>
  /\ UNCHANGED connects
  /\ UNCHANGED << genVars, parseVars, fnVars, libVars, clientVars >>

\* The insert into resume_generations comes back with resumeError.
GenerationError(s, m) ==
  /\ spc[s] = "resume_generations"
  /\ attempted' = [ attempted EXCEPT ![s] = Append(@, "resume_generations") ]
  /\ sresponse' = [ sresponse EXCEPT ![s] =
                      saveFailed("Failed to save resume metadata: " \o m) ]
  /\ spc' = [ spc EXCEPT ![s] = "done" ]
  /\ UNCHANGED << isConnected, mongo, supabase, sbody, connecting, mongoResult,
                  jobData, writes, saves >>
  /\ UNCHANGED connects
  /\ UNCHANGED << genVars, parseVars, fnVars, libVars, clientVars >>

\* The response has been sent: the handler returns and its locals are gone.
SaveReturn(s) ==
  /\ spc[s] = "done"
  /\ spc' = [ spc EXCEPT ![s] = "idle" ]
  /\ sbody' = [ sbody EXCEPT ![s] = NoSaveBody ]
  /\ connecting' = [ connecting EXCEPT ![s] = FALSE ]
  /\ mongoResult' = [ mongoResult EXCEPT ![s] = NoIds ]
  /\ jobData' = [ jobData EXCEPT ![s] = 0 ]
  /\ attempted' = [ attempted EXCEPT ![s] = << >> ]
  /\ writes' = [ writes EXCEPT ![s] = << >> ]
  /\ sresponse' = [ sresponse EXCEPT ![s] = NoResponse ]
  /\ UNCHANGED << isConnected, mongo, supabase, saves >>
  /\ UNCHANGED connects
  /\ UNCHANGED << genVars, parseVars, fnVars, libVars, clientVars >>

(***************************************************************************)
(* The other functions of the library: getUserResumes, getResumeById and   *)
(* saveToMongo, called by a caller c outside the save route.               *)
(***************************************************************************)
\* c calls the function: it calls connectToMongo, which calls
\* client.connect() when the flag is not set.
LibCall(c, call) ==
  /\ lib[c].at = "idle"
  /\ saves < MaxSaves
  /\ saves' = saves + 1
  /\ lib' = [ lib EXCEPT ![c] =
                [ fn |-> call.fn, arg |-> call.arg, at |-> "connect",
                  connecting |-> ~isConnected ] ]
  /\ connects' = IF isConnected THEN connects ELSE connects + 1
  /\ UNCHANGED << isConnected, mongo, supabase, spc, sbody, connecting, mongoResult,
                  jobData, attempted, writes, sresponse >>
  /\ UNCHANGED << genVars, parseVars, fnVars, clientVars >>

\* connectToMongo resolves for c: the flag is set if c connected.
LibConnectDone(c) ==
  /\ lib[c].at = "connect"
  /\ isConnected' = (isConnected \/ lib[c].connecting)
  /\ lib' = [ lib EXCEPT ![c].at = "query", ![c].connecting = FALSE ]
  /\ UNCHANGED << mongo, supabase, spc, sbody, connecting, mongoResult, jobData,
                  attempted, writes, sresponse, saves, connects >>
  /\ UNCHANGED << genVars, parseVars, fnVars, clientVars >>

\* client.connect() or a query rejects, or new ObjectId() throws: the
\* function logs and rethrows (saveToMongo has no catch and rejects as well).
LibThrows(c, m) ==
  /\ \/ lib[c].at = "connect" /\ lib[c].connecting
     \/ lib[c].at \in { "query", "related" }
  /\ lib' = [ lib EXCEPT ![c] =
                [ fn |-> @.fn, arg |-> @.arg, at |-> "done", connecting |-> FALSE,
                  result |-> [ kind |-> "error", message |-> m ] ] ]
  /\ UNCHANGED saveVars
  /\ UNCHANGED << genVars, parseVars, fnVars, clientVars >>

\* find().sort().toArray() resolves: getUserResumes returns the tailored
\* resumes of the user, the newest first.
GetUserResumesDone(c) ==
  /\ lib[c].at = "query"
  /\ lib[c].fn = "getUserResumes"
  /\ \E resumes \in sortedByDate(mongo.tailored_resumes,
                     { i \in DOMAIN mongo.tailored_resumes :
                         mongo.tailored_resumes[i].userId = Str(lib[c].arg) }) :
       lib' = [ lib EXCEPT ![c] =
                  [ fn |-> @.fn, arg |-> @.arg, at |-> "done", connecting |-> FALSE,
                    result |-> [ kind |-> "documents", documents |-> resumes ] ] ]
  /\ UNCHANGED saveVars
  /\ UNCHANGED << genVars, parseVars, fnVars, clientVars >>

\* getResumeById goes on after connectToMongo: new ObjectId(resumeId)
\* throws, or findOne resolves to null and the function returns null, or it
\* resolves to the document and the two related documents are asked for.
FindResumeDone(c) ==
  /\ lib[c].at = "query"
  /\ lib[c].fn = "getResumeById"
  /\ IF invalidObjectId(lib[c].arg)
       THEN lib' = [ lib EXCEPT ![c] =
                       [ fn |-> @.fn, arg |-> @.arg, at |-> "done", connecting |-> FALSE,
                         result |-> [ kind |-> "error", message |-> InvalidObjectId ] ] ]
       ELSE IF \E i \in DOMAIN mongo.tailored_resumes :
                 hasId(mongo.tailored_resumes[i], lib[c].arg)
         THEN lib' = [ lib EXCEPT ![c] =
                         [ fn |-> @.fn, arg |-> @.arg, at |-> "related",
                           connecting |-> FALSE,
                           resume |-> mongo.tailored_resumes[
                                        CHOOSE i \in DOMAIN mongo.tailored_resumes :
                                          hasId(mongo.tailored_resumes[i], lib[c].arg)] ] ]
         ELSE lib' = [ lib EXCEPT ![c] =
                         [ fn |-> @.fn, arg |-> @.arg, at |-> "done", connecting |-> FALSE,
                           result |-> Null ] ]
  /\ UNCHANGED saveVars
  /\ UNCHANGED << genVars, parseVars, fnVars, clientVars >>

\* Promise.all of the two findOne calls resolves: getResumeById returns the
\* document with the contents of its job description and its sample resume.
FindRelatedDone(c) ==
  /\ lib[c].at = "related"
  /\ lib' = [ lib EXCEPT ![c] =
                [ fn |-> @.fn, arg |-> @.arg, at |-> "done", connecting |-> FALSE,
                  result |-> resumeWithRelated(
                    lib[c].resume,
                    findOne(mongo.job_descriptions, lib[c].resume.jobDescriptionId),
                    findOne(mongo.sample_resumes, lib[c].resume.sampleResumeId)) ] ]
  /\ UNCHANGED saveVars
  /\ UNCHANGED << genVars, parseVars, fnVars, clientVars >>

\* insertOne into raw_data resolves: saveToMongo returns its result.
InsertRawData(c) ==
  /\ lib[c].at = "query"
  /\ lib[c].fn = "saveToMongo"
  /\ mongo' = [ mongo EXCEPT !.raw_data = Append(@, rawDataDoc(newObjectId, lib[c].arg)) ]
  /\ lib' = [ lib EXCEPT ![c] =
                [ fn |-> @.fn, arg |-> @.arg, at |-> "done", connecting |-> FALSE,
                  result |-> [ acknowledged |-> TRUE, insertedId |-> newObjectId ] ] ]
  /\ UNCHANGED << isConnected, supabase, spc, sbody, connecting, mongoResult, jobData,
                  attempted, writes, sresponse, saves, connects >>
  /\ UNCHANGED << genVars, parseVars, fnVars, clientVars >>

\* The caller has the result: the call is over.
LibReturn(c) ==
  /\ lib[c].at = "done"
  /\ lib' = [ lib EXCEPT ![c] = NoLibCall ]
  /\ UNCHANGED saveVars
  /\ UNCHANGED << genVars, parseVars, fnVars, clientVars >>

\* the steps of a caller of the library
LibNext(c) ==
  \/ \E call \in LibCalls : LibCall(c, call)
  \/ LibConnectDone(c)
  \/ \E m \in MongoErrors : LibThrows(c, m)
  \/ GetUserResumesDone(c)
  \/ FindResumeDone(c)
  \/ FindRelatedDone(c)
  \/ InsertRawData(c)
  \/ LibReturn(c)

\* the steps of the save-resume endpoint and of the library's other
\* functions: one save request and one library call at a time
SaveNext ==
  \E s \in Serial :
    \/ \E b \in SaveBodies : SaveReceive(s, b)
    \/ \E text \in MalformedBodies : SaveRejectBody(s, text)
    \/ SaveValidate(s)
    \/ ConnectDone(s)
    \/ \E m \in MongoErrors : MongoThrows(s, m)
    \/ InsertJobDescription(s)
    \/ InsertSampleResume(s)
    \/ InsertTailoredResume(s)
    \/ ExtractJobTitleThrows(s)
    \/ InsertJob(s)
    \/ \E m \in SupabaseErrors : JobError(s, m)
    \/ InsertGeneration(s)
    \/ \E m \in SupabaseErrors : GenerationError(s, m)
    \/ SaveReturn(s)
    \/ LibNext(s)

SpecSave == Init /\ [][SaveNext]_vars

\* the bodies of the save requests that race
RaceSaveBodies ==
  [ userId : { Str(<<"u","s","e","r","-","1">>) },
    jobDescription : { Str(TitledPosting) },
    sampleResume : { Str(SampleText) },
    tailoredResume : { Str(TailoredText) },
    matchScore : { Num(88) },
    keywords : { Arr(SavedKeywords) },
    improvements : { Arr(SavedImprovements) } ]

\* the steps of the save-resume endpoint with requests handled concurrently:
\* every await is a point where another handler may run; the metadata store
\* accepts every insert
SaveRaceNext ==
  \E s \in Handlers :
    \/ \E b \in RaceSaveBodies : SaveReceive(s, b)
    \/ SaveValidate(s)
    \/ ConnectDone(s)
    \/ \E m \in MongoErrors : MongoThrows(s, m)
    \/ InsertJobDescription(s)
    \/ InsertSampleResume(s)
    \/ InsertTailoredResume(s)
    \/ InsertJob(s)
    \/ InsertGeneration(s)
    \/ SaveReturn(s)
    \/ LibNext(s)

SpecSaveRace == Init /\ [][SaveRaceNext]_vars


(***************************************************************************)
(* parseResumeIntoSections, one iteration of its loop at a time, and       *)
(* reconstructResume.                                                      *)
(***************************************************************************)
\* the lines the resumes are made of: a name, a contact line, a job title,
\* two section titles, a content line, and bullet lines of each kind
LineLibrary ==
  { <<"J","a","n","e"," ","R","o","e">>,
    <<"j","a","n","e","@","e","x","a","m","p","l","e",".","c","o","m">>,
    <<"S","e","n","i","o","r"," ","D","e","v","e","l","o","p","e","r">>,
    <<"S","k","i","l","l","s">>,
    <<"W","o","r","k"," ","h","i","s","t","o","r","y"," ","a","n","d"," ","e","d","u","c","a","t",
      "i","o","n">>,
    <<"J","a","v","a","S","c","r","i","p","t",","," ","B","o","o","t","s","t","r","a","p">>,
    <<Bullet," ","T","e","a","m"," ","p","l","a","y","e","r">>,
    <<Bullet," ","A","v","a","i","l","a","b","l","e"," ","f","o","r"," ","t","r","a","v","e","l">>,
    <<Bullet," ","S","t","r","o","n","g"," ","a","n","a","l","y","t","i","c","a","l"," ","s","k",
      "i","l","l","s">>,
    <<Bullet," ","P","o","r","t","f","o","l","i","o"," ","o","n","l","i","n","e">>,
    <<Bullet," ","C","o","m","m","u","n","i","c","a","t","i","o","n"," ","b","y"," ","e","m","a",
      "i","l">>,
    <<Bullet," ","R","e","a","c","t",","," ","R","e","d","u","x">> }

\* the lines of an enumerated resume
MaxLines == 2

\* a resume whose lines need the whole of trim() and toLowerCase(): a line of
\* a no-break space alone, a title written with the Kelvin sign, and a
\* content line between a form feed and a vertical tab
UnicodeResume ==
  <<"J","a","n","e"," ","R","o","e","\n","<U+00A0>","\n","S","<U+212A>","I","L","L","S","\n","\f",
    "R","e","a","c","t",","," ","R","e","d","u","x","<U+000B>","\n","B","S","c">>

\* the resumes: up to MaxLines lines of the library joined by "\n", the two
\* resumes of the requests, and the resume of lines outside ASCII
Resumes ==
  { joinLines(ls) : ls \in UNION { [ 1..n -> LineLibrary ] : n \in 0..MaxLines } }
    \cup { ScenarioResume, FullResume, UnicodeResume }

\* the keywords the sections are enhanced with
EnhanceKeywords == << <<"R","e","a","c","t">>, <<"T","y","p","e","s","c","r","i","p","t">>, <<"T",
                                                                                              "a",
                                                                                              "i",
                                                                                              "l",
                                                                                              "w",
                                                                                              "i",
                                                                                              "n",
                                                                                              "d">> >>

\* the keyword lists of the enhancement: none, and the three technologies
KeywordLists == { << >>, EnhanceKeywords }

\* parseResumeIntoSections is called with a resume.
ParseCall(t) ==
  /\ pPc = "idle"
  /\ pPc' = "loop"
  /\ pFrom' = "raw"
  /\ pText' = t
  /\ pLines' = resumeLines(t)
  /\ pIndex' = 0
  /\ pState' = FirstIteration
  /\ UNCHANGED << pSections, pRebuilt >>
  /\ UNCHANGED << genVars, saveVars, fnVars, libVars, clientVars >>

\* One iteration of the loop.
ParseIteration ==
  /\ pPc = "loop"
  /\ pIndex < Len(pLines)
  /\ pState' = parseLine(pState, pLines[pIndex + 1])
  /\ pIndex' = pIndex + 1
  /\ UNCHANGED << pPc, pFrom, pText, pLines, pSections, pRebuilt >>
  /\ UNCHANGED << genVars, saveVars, fnVars, libVars, clientVars >>

\* The loop ends and the sections are returned.
ParseReturn ==
  /\ pPc = "loop"
  /\ pIndex = Len(pLines)
  /\ pPc' = "sectioned"
  /\ UNCHANGED << pFrom, pText, pLines, pIndex, pState, pSections, pRebuilt >>
  /\ UNCHANGED << genVars, saveVars, fnVars, libVars, clientVars >>

\* enhanceResumeWithKeywords goes on: the sections are enhanced and
\* reconstructResume is called with them.
EnhanceAndReconstruct(jobKeywords) ==
  /\ pPc = "sectioned"
  /\ pFrom = "raw"
  /\ pSections' = enhanceSections(pState.sections, jobKeywords)
  /\ pRebuilt' = reconstructResume(pSections')
  /\ pPc' = "enhanced"
  /\ UNCHANGED << pFrom, pText, pLines, pIndex, pState >>
  /\ UNCHANGED << genVars, saveVars, fnVars, libVars, clientVars >>

\* reconstructResume is called with the sections as they were returned.
Reconstruct ==
  /\ pPc = "sectioned"
  /\ pSections' = pState.sections
  /\ pRebuilt' = reconstructResume(pSections')
  /\ pPc' = "rebuilt"
  /\ UNCHANGED << pFrom, pText, pLines, pIndex, pState >>
  /\ UNCHANGED << genVars, saveVars, fnVars, libVars, clientVars >>

\* parseResumeIntoSections is called with the text reconstructResume made
\* out of a raw resume.
Resection ==
  /\ pPc \in { "enhanced", "rebuilt" }
  /\ pFrom = "raw"
  /\ pPc' = "loop"
  /\ pFrom' = "reconstructResume"
  /\ pText' = pRebuilt
  /\ pLines' = resumeLines(pRebuilt)
  /\ pIndex' = 0
  /\ pState' = FirstIteration
  /\ UNCHANGED << pSections, pRebuilt >>
  /\ UNCHANGED << genVars, saveVars, fnVars, libVars, clientVars >>

\* the sections reconstructResume is called with on its own: each section
\* empty or with a line, the summary also with blanks alone, the skills with
\* bullet lines that the clean-up drops or keeps
SectionInputs ==
  [ header : { << >>, <<"J","a","n","e"," ","R","o","e","\n">> },
    summary : { << >>, <<" ","\n">>, <<"B","u","i","l","d","s"," ","w","e","b"," ","a","p","p","s",
                                       ".","\n">> },
    skills : { << >>, <<Bullet," ","R","e","a","c","t",","," ","R","e","d","u","x","\n">>, <<"J",
                                                                                             "a",
                                                                                             "v",
                                                                                             "a",
                                                                                             "S",
                                                                                             "c",
                                                                                             "r",
                                                                                             "i",
                                                                                             "p",
                                                                                             "t",
                                                                                             "\n",
                                                                                             Bullet,
                                                                                             " ",
                                                                                             "R",
                                                                                             "e",
                                                                                             "a",
                                                                                             "c",
                                                                                             "t",
                                                                                             ",",
                                                                                             " ",
                                                                                             "R",
                                                                                             "e",
                                                                                             "d",
                                                                                             "u",
                                                                                             "x",
                                                                                             "\n">>,
               <<Bullet," ","D","e","s","i","g","n"," ","t","o","o","l","s","\n">> },
    experience : { << >>, <<"S","h","i","p","p","e","d"," ","s","i","t","e","s","\n">> },
    education : { << >>, <<"B","S","c","\n">> },
    projects : { << >>, <<"S","h","o","p"," ","U","I","\n">> },
    certifications : { << >>, <<" ">> },
    additional : { << >>, <<"O","p","e","n"," ","t","o"," ","t","r","a","v","e","l","\n">> } ]

\* reconstructResume is called with sections given by the caller.
ReconstructCall(sections) ==
  /\ pPc = "idle"
  /\ pPc' = "rebuilt"
  /\ pFrom' = "sections"
  /\ pSections' = sections
  /\ pRebuilt' = reconstructResume(sections)
  /\ UNCHANGED << pText, pLines, pIndex, pState >>
  /\ UNCHANGED << genVars, saveVars, fnVars, libVars, clientVars >>

ParseNext ==
  \/ \E t \in Resumes : ParseCall(t)
  \/ \E sections \in SectionInputs : ReconstructCall(sections)
  \/ ParseIteration
  \/ ParseReturn
  \/ \E jobKeywords \in KeywordLists : EnhanceAndReconstruct(jobKeywords)
  \/ Reconstruct
  \/ Resection

SpecParse == Init /\ [][ParseNext]_vars

(***************************************************************************)
(* The text functions applied on their own: cleanAndStructureText,         *)
(* isGarbledText and extractKeywords, each called once with a text.        *)
(***************************************************************************)
\* the pieces a text is put together from
MaxPieces == 3

\* every text made of up to MaxPieces of the pieces
textsOf(pieces) ==
  { flatten(ps) : ps \in UNION { [ 1..n -> pieces ] : n \in 0..MaxPieces } }

\* two runs of letters of 10 and 9 characters, a space, an allowed
\* punctuation mark, an underscore, a digit, a symbol outside the allow-list
\* and a dot
TextPieces ==
  { <<"a","b","c","d","e","f","g","h","i","j">>, <<"k","l","m","n","o","p","q","r","s">>, <<" ">>, <<
                                                                                                     "-">>, <<
                                                                                                              "_">>, <<
                                                                                                                       "7">>, <<
                                                                                                                                "#">>, <<
                                                                                                                                         ".">> }

\* 25 identical letters
SameLetters == [ i \in 1..25 |-> "a" ]

\* an English sentence of 150 characters
Sentence ==
  <<"T","h","e"," ","q","u","i","c","k"," ","b","r","o","w","n"," ","f","o","x"," ","j","u","m","p",
    "s"," ","o","v","e","r"," ","t","h","e"," ","l","a","z","y"," ","d","o","g",","," ","a","n","d",
    " ","t","h","e","n"," ","i","t"," ","r","e","s","t","s"," ","n","e","a","r"," ","t","h","e"," ",
    "q","u","i","e","t"," ","r","i","v","e","r"," ","b","a","n","k"," ","w","h","i","l","e"," ","t",
    "h","e"," ","s","u","n"," ","s","e","t","s"," ","s","l","o","w","l","y"," ","b","e","h","i","n",
    "d"," ","t","h","e"," ","d","i","s","t","a","n","t"," ","h","i","l","l","s"," ","o","f"," ","a",
    " ","t","o","w","n",".">>

GarbledInputs == textsOf(TextPieces) \cup { SameLetters, Sentence }

\* a labelled text of 99 characters that is not garbled, and the same text
\* with its labels in lowercase
LabelledCore ==
  <<"P","R","O","F","E","S","S","I","O","N","A","L"," ","S","U","M","M","A","R","Y",":"," ","F","r",
    "o","n","t","e","n","d"," ","d","e","v","e","l","o","p","e","r"," ","b","u","i","l","d","i","n",
    "g"," ","R","e","a","c","t"," ","a","p","p","s","."," ","S","K","I","L","L","S",":"," ","J","a",
    "v","a","S","c","r","i","p","t",","," ","B","o","o","t","s","t","r","a","p"," ","a","n","d"," ",
    "C","S","S">>

UnlabelledCore ==
  <<"P","r","o","f","e","s","s","i","o","n","a","l"," ","s","u","m","m","a","r","y",":"," ","f","r",
    "o","n","t","e","n","d"," ","d","e","v","e","l","o","p","e","r"," ","b","u","i","l","d","i","n",
    "g"," ","R","e","a","c","t"," ","a","p","p","s","."," ","S","k","i","l","l","s",":"," ","J","a",
    "v","a","S","c","r","i","p","t",","," ","B","o","o","t","s","t","r","a","p"," ","a","n","d"," ",
    "C","S","S">>

\* the pieces that follow a core
SummaryPieces == { <<"a","b","c","d","e","f","g","h","i","j">>, <<" ">>, <<"7">>, <<"#">>, <<".">> }

\* the summarizer texts: the cores followed by up to MaxPieces pieces, and
\* the texts of Outputs
SummaryInputs ==
  { core \o t : core \in { LabelledCore, UnlabelledCore }, t \in textsOf(SummaryPieces) }
    \cup { << >>, ShortOutput, GoodOutput, UnlabelledOutput, GarbledOutput }

\* the words a job description is put together from
JobPieces ==
  { <<"c","s","s"," ">>, <<"a","p","p"," ">>, <<"t","h","e"," ">>, <<"c","o","d","e"," ">>, <<"C",
                                                                                              "S",
                                                                                              "S",
                                                                                              ",",
                                                                                              " ">>, <<
                                                                                                       "c",
                                                                                                       "s",
                                                                                                       "s",
                                                                                                       "3",
                                                                                                       " ">>, <<
                                                                                                                "h",
                                                                                                                "t",
                                                                                                                "m",
                                                                                                                "l",
                                                                                                                " ">> }

JobInputs ==
  textsOf(JobPieces) \cup { ScenarioJob, EightJob, ManyJob, ShortJob, NoKeywordJob }

\* the value isGarbledText returns
Bool(b) == [ kind |-> "boolean", value |-> b ]

CallCleanAndStructureText(text, originalResume) ==
  /\ fnName = "none"
  /\ fnName' = "cleanAndStructureText"
  /\ fnArg' = << text, originalResume >>
  /\ fnResult' = cleanAndStructureText(text, originalResume)
  /\ UNCHANGED << genVars, saveVars, parseVars, libVars, clientVars >>

CallIsGarbledText(text) ==
  /\ fnName = "none"
  /\ fnName' = "isGarbledText"
  /\ fnArg' = << text >>
  /\ fnResult' = Bool(isGarbledText(text))
  /\ UNCHANGED << genVars, saveVars, parseVars, libVars, clientVars >>

CallExtractKeywords(text) ==
  /\ fnName = "none"
  /\ fnName' = "extractKeywords"
  /\ fnArg' = << text >>
  /\ fnResult' = extractKeywords(text)
  /\ UNCHANGED << genVars, saveVars, parseVars, libVars, clientVars >>

TextNext ==
  \/ \E text \in SummaryInputs : CallCleanAndStructureText(text, ScenarioResume)
  \/ \E text \in GarbledInputs : CallIsGarbledText(text)
  \/ \E text \in JobInputs : CallExtractKeywords(text)

SpecText == Init /\ [][TextNext]_vars

(***************************************************************************)
(* The ResumeGenerator component in the browser.  component holds its      *)
(* useState() values; a handler runs up to its next await in one step and   *)
(* the promise it awaits settles in a later step.  history records, beside  *)
(* the component, the generate request whose response is the displayed      *)
(* result (shown), the generate request whose response the save in flight   *)
(* stores (saving), whether that save was started on the displayed result   *)
(* (ofShown) and whether the save that last set saved was (savedShown).     *)
(***************************************************************************)
MinJobLength == 50

MinResumeLength == 100

\* a job description of MinJobLength blanks
BlankJob == [ i \in 1..MinJobLength |-> " " ]

\* what the user types or pastes into the two text areas
ClientJobs == { ScenarioJob \o <<" "," ">>, BlankJob }

ClientResumes == { FullResume \o <<"\n">> }

\* const isFormValid = ...
isFormValid ==
  /\ Len(component.jobDescription) >= MinJobLength
  /\ Len(component.resumeText) >= MinResumeLength

\* onChange of the job description text area, which is disabled while loading
SetJobDescription(text) ==
  /\ ~component.loading
  /\ component' = [ component EXCEPT !.jobDescription = text ]
  /\ UNCHANGED << generateRequest, saveRequest, timers, history >>
  /\ UNCHANGED << genVars, saveVars, parseVars, fnVars, libVars >>

\* onChange of the resume text area, which is disabled while loading
SetResumeText(text) ==
  /\ ~component.loading
  /\ component' = [ component EXCEPT !.resumeText = text ]
  /\ UNCHANGED << generateRequest, saveRequest, timers, history >>
  /\ UNCHANGED << genVars, saveVars, parseVars, fnVars, libVars >>

\* handleGenerate up to its await of fetch(); the button is disabled while
\* loading and while the form is not valid.  The checkbox of useAlternative
\* is not rendered, so the request carries the initial false.
HandleGenerate ==
  /\ ~component.loading
  /\ isFormValid
  /\ IF trim(component.jobDescription) = << >> \/ trim(component.resumeText) = << >>
       THEN /\ component' = [ component EXCEPT
                 !.error = "Please provide both job description and resume text" ]
            /\ UNCHANGED << generateRequest, history >>
       ELSE IF Len(component.jobDescription) < MinJobLength
       THEN /\ component' = [ component EXCEPT !.error =
                 "Job description is too short. Please provide more details (minimum 50 characters)." ]
            /\ UNCHANGED << generateRequest, history >>
       ELSE IF Len(component.resumeText) < MinResumeLength
       THEN /\ component' = [ component EXCEPT !.error =
                 "Resume text is too short. Please provide a complete resume (minimum 100 characters)." ]
            /\ UNCHANGED << generateRequest, history >>
       ELSE /\ component' = [ component EXCEPT !.loading = TRUE, !.error = "",
                                               !.result = Null, !.saved = FALSE ]
            /\ generateRequest' = [ kind |-> "generate",
                                    jobDescription |-> trim(component.jobDescription),
                                    resumeText |-> trim(component.resumeText),
                                    useAlternative |-> component.useAlternative,
                                    response |-> NoResponse ]
            /\ history' = [ history EXCEPT !.shown = NoRequest, !.ofShown = FALSE,
                                           !.savedShown = FALSE ]
  /\ UNCHANGED << saveRequest, timers >>
  /\ UNCHANGED << genVars, saveVars, parseVars, fnVars, libVars >>

\* a body as the generate route sends it on success
RouteData ==
  [ tailoredResume |-> Str(TailoredText), keywords |-> Arr(SavedKeywords),
    improvements |-> Arr(SavedImprovements), matchScore |-> Num(88),
    timestamp |-> Str(<<"2","0","2","5","-","0","1","-","0","1","T","0","0",":","0","0",":","0","0",
                        ".","0","0","0","Z">>), service |-> Str(<<"D","i","s","t","i","l","B","A",
                                                                  "R","T","-","C","N","N">>) ]

\* the JSON bodies of a 2xx response: the route's, and bodies with a score
\* out of range or not a number, with fields missing or of another type,
\* with the tailored resume empty or missing
GenerateData ==
  { RouteData,
    [ RouteData EXCEPT !.matchScore = Num(150), !.keywords = Str(<<"R","e","a","c","t">>),
                       !.improvements = Undefined, !.timestamp = Undefined,
                       !.service = Undefined ],
    [ RouteData EXCEPT !.matchScore = Num(0 - 5) ],
    [ RouteData EXCEPT !.matchScore = Str(<<"8","8">>) ],
    [ RouteData EXCEPT !.tailoredResume = Str(<< >>) ],
    [ RouteData EXCEPT !.tailoredResume = Undefined ] }

\* a 2xx response whose body is the JSON text of data
okResponse(data) == [ status |-> 200, data |-> data ]

\* a response whose body is the JSON value null
nullResponse(status) == [ status |-> status, body |-> Null ]

\* a response whose body is text that is not JSON
textResponse(status, text) == [ status |-> status, text |-> text ]

\* response.ok
isOk(res) == res.status >= 200 /\ res.status <= 299

\* the responses fetch("/api/generate-resume") resolves to: a 2xx response
\* with a JSON body, 2xx responses whose body is not JSON, and responses
\* that are not ok (the 400 and a 500 of the generate route, a 502 without a
\* JSON body, a 500 whose body is null)
GenerateResponses ==
  { okResponse(data) : data \in GenerateData \cup { Null } }
    \cup { textResponse(200, ""), textResponse(200, "not json"),
           badRequest, serverError("jobDescription?.trim is not a function"),
           textResponse(502, "not json"), nullResponse(500) }

\* what fetch("/api/generate-resume") settles to: a response, or a rejection
GenerateOutcomes ==
  [ kind : { "response" }, response : GenerateResponses ] \cup { [ kind |-> "network" ] }

\* the message of the TypeError fetch() rejects with
FetchFailed == "Failed to fetch"

\* the message of the TypeError errorData.error throws when errorData is null
NullErrorData == "Cannot read properties of null (reading 'error')"

\* errorData.error || fallback, for errorData the body of the response, {}
\* when the body is not JSON, null when it is the JSON value null
errorOr(errorData, fallback) ==
  IF "body" \in DOMAIN errorData THEN NullErrorData
  ELSE IF "error" \in DOMAIN errorData /\ errorData.error # "" THEN errorData.error
  ELSE fallback

\* the message of the Error handleGenerate throws or catches once the body
\* of the response is read, "" when it throws none
generateError(res) ==
  IF ~isOk(res)
    THEN errorOr(res, "Server error: " \o ToString(res.status))
  ELSE IF "text" \in DOMAIN res THEN syntaxErrorMessage(res.text)
  ELSE IF res.data = Null THEN "Invalid response from server"
  ELSE IF falsy(res.data.tailoredResume) THEN "Invalid response from server"
  ELSE ""

\* Array.isArray(v) ? v : []
arrayOrEmpty(v) == IF v.kind = "array" THEN v.items ELSE << >>

\* const validatedResult: AIResponse = ...
validatedResult(data) ==
  [ kind |-> "result",
    tailoredResume |-> data.tailoredResume.text,
    keywords |-> arrayOrEmpty(data.keywords),
    improvements |-> arrayOrEmpty(data.improvements),
    matchScore |-> IF data.matchScore.kind = "number"
                   THEN LET low == IF data.matchScore.value < 100
                                   THEN data.matchScore.value ELSE 100
                        IN  IF low > 0 THEN low ELSE 0
                   ELSE 0,
    timestamp |-> data.timestamp,
    service |-> data.service ]

\* the awaited fetch() of handleGenerate settles: a rejection is caught and
\* finally runs; on a response the handler goes on to its await of
\* response.json()
GenerateFetchSettles(outcome) ==
  /\ generateRequest.kind = "generate"
  /\ IF outcome.kind = "network"
       THEN /\ component' = [ component EXCEPT !.error = FetchFailed, !.loading = FALSE ]
            /\ generateRequest' = NoRequest
       ELSE /\ generateRequest' = [ generateRequest EXCEPT !.kind = "json",
                                                           !.response = outcome.response ]
            /\ UNCHANGED component
  /\ UNCHANGED << saveRequest, timers, history >>
  /\ UNCHANGED << genVars, saveVars, parseVars, fnVars, libVars >>

\* the awaited response.json() of handleGenerate settles, then the rest of
\* try, catch and finally run
GenerateJsonSettles ==
  /\ generateRequest.kind = "json"
  /\ LET res == generateRequest.response
     IN  IF generateError(res) = ""
           THEN /\ component' = [ component EXCEPT !.result = validatedResult(res.data),
                                                   !.loading = FALSE ]
                /\ history' = [ history EXCEPT !.shown =
                                  [ generateRequest EXCEPT !.kind = "generate",
                                                           !.response = NoResponse ] ]
           ELSE /\ component' = [ component EXCEPT !.error = generateError(res),
                                                   !.loading = FALSE ]
                /\ UNCHANGED history
  /\ generateRequest' = NoRequest
  /\ UNCHANGED << saveRequest, timers >>
  /\ UNCHANGED << genVars, saveVars, parseVars, fnVars, libVars >>

\* downloadResumeAsPDF, on the button rendered with the result: when building
\* the PDF throws, the catch sets error; otherwise the handler writes only
\* the downloaded flag, which like copied is not part of component
DownloadResumeAsPDF(thrown) ==
  /\ component.result # Null
  /\ component.result.tailoredResume # << >>
  /\ IF thrown
       THEN component' = [ component EXCEPT
              !.error = "Failed to generate PDF. Please try again." ]
       ELSE UNCHANGED component
  /\ UNCHANGED << generateRequest, saveRequest, timers, history >>
  /\ UNCHANGED << genVars, saveVars, parseVars, fnVars, libVars >>

\* handleSave up to its await of supabase.auth.getUser(); the button is
\* rendered with the result and disabled while saving or saved.  The body
\* is built from the state of the render the click happened in.  The user
\* clicks it while fewer than MaxTimers timers of earlier saves are pending.
HandleSave ==
  /\ component.result # Null
  /\ ~component.saving
  /\ ~component.saved
  /\ timers < MaxTimers
  /\ IF component.result = Null
       THEN /\ component' = [ component EXCEPT !.error = "No resume data to save" ]
            /\ UNCHANGED << saveRequest, history >>
       ELSE /\ component' = [ component EXCEPT !.saving = TRUE, !.error = "" ]
            /\ saveRequest' = [ kind |-> "getUser",
                                userId |-> Undefined,
                                jobDescription |-> trim(component.jobDescription),
                                sampleResume |-> trim(component.resumeText),
                                tailoredResume |-> component.result.tailoredResume,
                                matchScore |-> component.result.matchScore,
                                keywords |-> component.result.keywords,
                                improvements |-> component.result.improvements,
                                response |-> NoResponse ]
            /\ history' = [ history EXCEPT !.saving = history.shown, !.ofShown = TRUE ]
  /\ UNCHANGED << generateRequest, timers >>
  /\ UNCHANGED << genVars, saveVars, parseVars, fnVars, libVars >>

\* the user supabase.auth.getUser() resolves to, Undefined for none
Users == { Str(<<"u","s","e","r","-","1">>), Undefined }

\* getUser() settles: handleSave sends the save request, or throws
GetUserSettles(user) ==
  /\ saveRequest.kind = "getUser"
  /\ IF user = Undefined
       THEN /\ component' = [ component EXCEPT !.error = "User not authenticated",
                                               !.saving = FALSE ]
            /\ saveRequest' = NoRequest
       ELSE /\ saveRequest' = [ saveRequest EXCEPT !.kind = "save", !.userId = user ]
            /\ UNCHANGED component
  /\ UNCHANGED << generateRequest, timers, history >>
  /\ UNCHANGED << genVars, saveVars, parseVars, fnVars, libVars >>

\* the responses fetch("/api/save-resume") resolves to: a 2xx response with
\* a JSON body or with a body that is not JSON, and responses that are not
\* ok (the 400 and a 500 of the save route, a 502 without a JSON body, a 500
\* whose body is null)
SaveResponses ==
  { okResponse([ success |-> TRUE ]), textResponse(200, ""),
    missingFields, saveFailed("connection closed"),
    textResponse(502, "not json"), nullResponse(500) }

\* what fetch("/api/save-resume") settles to: a response, or a rejection
SaveOutcomes ==
  [ kind : { "response" }, response : SaveResponses ] \cup { [ kind |-> "network" ] }

\* the message of the Error handleSave throws or catches once the body of
\* the response is read, "" for none
saveError(res) ==
  IF ~isOk(res) THEN errorOr(res, "Failed to save resume data")
  ELSE IF "text" \in DOMAIN res THEN syntaxErrorMessage(res.text)
  ELSE ""

\* the awaited fetch() of handleSave settles: a rejection is caught and
\* finally runs; on a response the handler goes on to its await of
\* response.json()
SaveFetchSettles(outcome) ==
  /\ saveRequest.kind = "save"
  /\ IF outcome.kind = "network"
       THEN /\ component' = [ component EXCEPT !.error = FetchFailed, !.saving = FALSE ]
            /\ saveRequest' = NoRequest
       ELSE /\ saveRequest' = [ saveRequest EXCEPT !.kind = "json",
                                                   !.response = outcome.response ]
            /\ UNCHANGED component
  /\ UNCHANGED << generateRequest, timers, history >>
  /\ UNCHANGED << genVars, saveVars, parseVars, fnVars, libVars >>

\* the awaited response.json() of handleSave settles, then the rest of try,
\* catch and finally run
SaveJsonSettles ==
  /\ saveRequest.kind = "json"
  /\ IF saveError(saveRequest.response) = ""
       THEN /\ component' = [ component EXCEPT !.saved = TRUE, !.saving = FALSE ]
            /\ timers' = timers + 1
            /\ history' = [ history EXCEPT !.savedShown = history.ofShown ]
       ELSE /\ component' = [ component EXCEPT !.error = saveError(saveRequest.response),
                                               !.saving = FALSE ]
            /\ UNCHANGED << timers, history >>
  /\ saveRequest' = NoRequest
  /\ UNCHANGED generateRequest
  /\ UNCHANGED << genVars, saveVars, parseVars, fnVars, libVars >>

\* setTimeout(() => setSaved(false), 3000) fires
SavedTimeout ==
  /\ timers > 0
  /\ timers' = timers - 1
  /\ component' = [ component EXCEPT !.saved = FALSE ]
  /\ UNCHANGED << generateRequest, saveRequest, history >>
  /\ UNCHANGED << genVars, saveVars, parseVars, fnVars, libVars >>

ClientNext ==
  \/ \E text \in ClientJobs : SetJobDescription(text)
  \/ \E text \in ClientResumes : SetResumeText(text)
  \/ HandleGenerate
  \/ \E outcome \in GenerateOutcomes : GenerateFetchSettles(outcome)
  \/ GenerateJsonSettles
  \/ \E thrown \in BOOLEAN : DownloadResumeAsPDF(thrown)
  \/ HandleSave
  \/ \E user \in Users : GetUserSettles(user)
  \/ \E outcome \in SaveOutcomes : SaveFetchSettles(outcome)
  \/ SaveJsonSettles
  \/ SavedTimeout

SpecClient == Init /\ [][ClientNext]_vars

\* every promise handleGenerate awaits settles
SpecClientFair ==
  /\ SpecClient
  /\ WF_vars(\E outcome \in GenerateOutcomes : GenerateFetchSettles(outcome))
  /\ WF_vars(GenerateJsonSettles)

(***************************************************************************)
(* Properties of the generate-resume endpoint, stated over Spec.           *)
(***************************************************************************)
\* a field that is missing, null, empty or made of whitespace only
isBlankField(v) ==
  \/ v.kind = "undefined"
  \/ v.kind = "null"
  \/ v.kind = "string" /\ \A i \in DOMAIN v.text : v.text[i] \in SpaceSet

\* a field that is a string with something other than whitespace in it
isNonBlankString(v) ==
  /\ v.kind = "string"
  /\ \E i \in DOMAIN v.text : v.text[i] \notin SpaceSet

\* request.json() resolved for r, to an object
bodyParsed(r) ==
  /\ pc[r] # "idle"
  /\ body[r] # Null
  /\ \A text \in MalformedBodies : response[r] # serverError(syntaxErrorMessage(text))

\* the request of r passes the validation of POST
passesValidation(r) ==
  /\ body[r] # Null
  /\ isNonBlankString(body[r].jobDescription)
  /\ isNonBlankString(body[r].resumeText)

\* r has answered with a success body
succeeded(r) == pc[r] = "done" /\ response[r].status = 200

\* the summarizer of r threw, at initialization or at the call
summarizerThrew(r) == succeeded(r) /\ output[r] = NoOutput

\* the summarizer of r resolved and its output was refused by cleanAndStructureText
outputRejected(r) ==
  /\ succeeded(r)
  /\ output[r] # NoOutput
  /\ ~(output[r].kind = "string" /\ acceptsExternal(output[r].text))

\* the summarizer of r resolved and its cleaned text is the tailored resume
outputUsed(r) ==
  /\ succeeded(r)
  /\ output[r].kind = "string"
  /\ acceptsExternal(output[r].text)

\* C1: once jobDescription and resumeText are both non-blank strings, the
\* response of the generate-resume POST is a 200 whose body has no error
\* field and carries tailoredResume, keywords, improvements, matchScore,
\* timestamp and service, whether the summarizer's initialization threw,
\* its call threw, or its output was empty or unusable.
C1_NeverFailsOutward ==
  \A r \in Handlers :
    (pc[r] = "done" /\ passesValidation(r)) =>
      /\ response[r].status = 200
      /\ "error" \notin DOMAIN response[r]
      /\ { "tailoredResume", "keywords", "improvements", "matchScore", "timestamp",
           "service" } \subseteq DOMAIN response[r]

\* a validated request answered although pipeline() threw before any call
C1_Witness ==
  \E r \in Handlers :
    /\ pc[r] = "done"
    /\ passesValidation(r)
    /\ output[r] = NoOutput
    /\ \A i \in DOMAIN calls[r] : calls[r][i].op # "summarize"
    /\ response[r].status = 200

\* C2: the matchScore of a success response is 60 when the keyword sequence
\* is empty, and otherwise round(100 * matched / total) clamped to 50..95,
\* where matched counts the keywords whose lowercase form is a substring of
\* the lowercased tailored resume; it always lies in {60} \cup 50..95.
C2_MatchScore ==
  \A r \in Handlers :
    succeeded(r) =>
      LET kw == keywords[r]
          text == toLowerCase(response[r].tailoredResume)
          total == Len(kw)
          matched ==
            Cardinality({ i \in 1..total : includes(text, toLowerCase(kw[i])) })
          score == response[r].matchScore
      IN  /\ total = 0 => score = 60
          /\ total > 0 =>
               \E raw \in 0..100 :
                 /\ 2 * total * raw - 200 * matched \in (1 - total)..total
                 /\ score = IF raw < 50 THEN 50 ELSE IF raw > 95 THEN 95 ELSE raw
          /\ score \in { 60 } \cup 50..95

\* five keywords of eight matched: 62.5 is rounded up to 63
C2_Witness ==
  \E r \in Handlers :
    /\ succeeded(r)
    /\ Len(keywords[r]) = 8
    /\ Cardinality(matchedKeywords(keywords[r], response[r].tailoredResume)) = 5
    /\ response[r].matchScore = 63

\* C3: a request whose jobDescription or resumeText is missing, empty or
\* whitespace-only (the body being an object and the fields strings, null or
\* absent, as RequestBody declares them) is answered 400 with a message, and
\* the handler has called neither extractKeywords nor pipeline() nor the
\* summarizer.
C3_BlankRejected ==
  \A r \in Handlers :
    ( /\ pc[r] \notin { "idle", "parsed" }
      /\ bodyParsed(r)
      /\ \/ isBlankField(body[r].jobDescription)
         \/ /\ body[r].jobDescription.kind = "string"
            /\ isBlankField(body[r].resumeText) ) =>
      /\ pc[r] = "done"
      /\ response[r] =
           [ status |-> 400, error |-> "Both job description and resume text are required" ]
      /\ calls[r] = << >>
      /\ keywords[r] = << >>
      /\ output[r] = NoOutput

\* a whitespace-only job description with a real resume, answered 400
C3_Witness ==
  \E r \in Handlers :
    /\ pc[r] = "done"
    /\ body[r] # Null
    /\ body[r].jobDescription.kind = "string"
    /\ Len(body[r].jobDescription.text) > 0
    /\ isBlankField(body[r].jobDescription)
    /\ isNonBlankString(body[r].resumeText)
    /\ response[r].status = 400
    /\ calls[r] = << >>

\* C4: the service label names the path that produced the tailored text:
\* "DistilBART-CNN" or "DistilBART-Large" only when the cleaned summarizer
\* text is the tailored resume, "Enhanced Original (Fallback)" whenever the
\* text comes from the heuristic pipeline, the summarizer having thrown or
\* its output having been rejected.
C4_ServiceNamesPath ==
  \A r \in Handlers :
    succeeded(r) =>
      /\ response[r].service \in { "DistilBART-CNN", "DistilBART-Large" } => outputUsed(r)
      /\ (summarizerThrew(r) \/ outputRejected(r)) =>
           response[r].service = "Enhanced Original (Fallback)"

\* C5: for the same request, the tailored text and the improvements list
\* returned when the summarizer's output is rejected equal those returned
\* when the summarizer throws: the sections enhanced with the job's
\* extracted keywords and reconstructed, and the generic improvements list.
C5_RejectionEqualsThrow ==
  \A r \in Handlers :
    outputRejected(r) =>
      /\ response[r].tailoredResume =
           reconstructResume(enhancedSections(body[r].resumeText.text, keywords[r]))
      /\ response[r].tailoredResume =
           fallbackResponse(body[r], keywords[r]).tailoredResume
      /\ response[r].improvements = fallbackResponse(body[r], keywords[r]).improvements

\* a line of the text that contains every one of the parts
hasLineWith(text, parts) ==
  \E i \in DOMAIN splitLines(text) :
    \A p \in parts : includes(splitLines(text)[i], p)

\* C6: for the scenario's job description and resume with the summarizer
\* failing, the response has service "Enhanced Original (Fallback)", a
\* matchScore in 50..95, a skills line containing "JavaScript, TypeScript"
\* and "Bootstrap, Tailwind CSS", and an experience line containing
\* "React.js, TypeScript, and modern JavaScript".
C6_Scenario ==
  \A r \in Handlers :
    ( /\ summarizerThrew(r)
      /\ body[r].jobDescription = Str(ScenarioJob)
      /\ body[r].resumeText = Str(ScenarioResume) ) =>
      /\ response[r].service = "Enhanced Original (Fallback)"
      /\ response[r].matchScore \in 50..95
      /\ hasLineWith(response[r].tailoredResume,
                     { <<"J","a","v","a","S","c","r","i","p","t",","," ","T","y","p","e","S","c",
                         "r","i","p","t">>, <<"B","o","o","t","s","t","r","a","p",","," ","T","a",
                                              "i","l","w","i","n","d"," ","C","S","S">> })
      /\ hasLineWith(response[r].tailoredResume,
                     { <<"R","e","a","c","t",".","j","s",","," ","T","y","p","e","S","c","r","i",
                         "p","t",","," ","a","n","d"," ","m","o","d","e","r","n"," ","J","a","v",
                         "a","S","c","r","i","p","t">> })

\* the index at which w first stands in words
firstAt(words, w) ==
  CHOOSE i \in DOMAIN words :
    words[i] = w /\ \A j \in 1..(i - 1) : words[j] # w

\* C7: extractKeywords returns at most 10 entries, each starting with a
\* capital letter, pairwise distinct whatever the case, in the order in which
\* they first occur in the text, the repeats being removed before the list
\* is cut to 10; the response carries the first 8 of them, or all of them
\* when there are fewer, in the same order.
C7_Keywords ==
  \A r \in Handlers :
    (pc[r] \in { "init", "call" } \/ succeeded(r)) =>
      LET kw == keywords[r]
          words == candidateWords(body[r].jobDescription.text)
          lower == [ i \in DOMAIN kw |-> toLowerCase(kw[i]) ]
          distinct == { words[i] : i \in DOMAIN words }
          shown == IF Len(kw) < 8 THEN Len(kw) ELSE 8
      IN  /\ Len(kw) <= 10
          /\ \A i \in DOMAIN kw : kw[i] # << >> /\ kw[i][1] \in UpperSet
          /\ \A i, j \in DOMAIN kw : i < j => lower[i] # lower[j]
          /\ \A i \in DOMAIN kw : lower[i] \in distinct
          /\ \A i, j \in DOMAIN kw :
               i < j => firstAt(words, lower[i]) < firstAt(words, lower[j])
          /\ Len(kw) = IF Cardinality(distinct) < 10 THEN Cardinality(distinct) ELSE 10
          /\ \A w \in distinct :
               (\A i \in DOMAIN kw : lower[i] # w) =>
                 \A i \in DOMAIN kw : firstAt(words, lower[i]) < firstAt(words, w)
          /\ succeeded(r) => response[r].keywords = SubSeq(kw, 1, shown)

\* a job description with a repeat among its first ten words and more than
\* ten distinct words: ten keywords are kept, eight are shown
C7_Witness ==
  \E r \in Handlers :
    /\ succeeded(r)
    /\ LET words == candidateWords(body[r].jobDescription.text)
       IN  /\ Cardinality({ words[i] : i \in DOMAIN words }) > 10
           /\ \E i, j \in 1..10 : i < j /\ words[i] = words[j]
    /\ Len(keywords[r]) = 10
    /\ Len(response[r].keywords) = 8

(***************************************************************************)
(* Properties of the save-resume endpoint, stated over SpecSave.           *)
(***************************************************************************)
\* a field that is missing or empty
isMissingField(v) ==
  \/ v.kind = "undefined"
  \/ v.kind = "string" /\ v.text = << >>

\* the four required fields of the save request of s are present
allPresent(s) ==
  /\ ~isMissingField(sbody[s].userId)
  /\ ~isMissingField(sbody[s].jobDescription)
  /\ ~isMissingField(sbody[s].sampleResume)
  /\ ~isMissingField(sbody[s].tailoredResume)

\* the order in which a save request writes
InsertOrder ==
  << "job_descriptions", "sample_resumes", "tailored_resumes", "jobs",
     "resume_generations" >>

\* the documents of a collection with this identifier
docsWithId(collection, id) ==
  { i \in DOMAIN mongo[collection] : mongo[collection][i]._id = id }

\* the answers of the save route to a store that refused a write
StoreFailures ==
  { saveFailed(m) : m \in MongoErrors }
    \cup { saveFailed("Failed to save job metadata: " \o m) : m \in SupabaseErrors }
    \cup { saveFailed("Failed to save resume metadata: " \o m) : m \in SupabaseErrors }

\* the job description of the save request of s is a text
jobDescriptionIsText(s) == sbody[s].jobDescription.kind = "string"

\* a store refused a write of the save request of s: the request has
\* ended with an insert attempted and not made, or, its fields present, with
\* no insert attempted, the connection to the document store refused
storeRefused(s) ==
  /\ spc[s] = "done"
  /\ allPresent(s)
  /\ Len(attempted[s]) > Len(writes[s]) \/ attempted[s] = << >>

\* C8: a save request with userId, jobDescription, sampleResume and
\* tailoredResume present, the job description being a text, which no store
\* refuses, makes exactly three
\* document inserts (job description, sample resume, tailored resume) and
\* two metadata inserts (jobs, resume_generations); the jobs row carries the
\* id of this request's job-description document, the resume_generations row
\* the ids of this request's sample and tailored resume documents.
C8_FiveInserts ==
  \A s \in Handlers :
    (/\ spc[s] = "done"
     /\ sbody[s] \in SaveBodies \ { Null }
     /\ allPresent(s)
     /\ jobDescriptionIsText(s)) =>
      \/ sresponse[s] \in StoreFailures
      \/ /\ sresponse[s].status = 200
         /\ attempted[s] = InsertOrder
         /\ [ i \in DOMAIN writes[s] |-> writes[s][i].into ] = InsertOrder
         /\ LET jd == writes[s][1].id
                sample == writes[s][2].id
                tailored == writes[s][3].id
                job == supabase.jobs[writes[s][4].id]
                generation == supabase.resume_generations[writes[s][5].id]
            IN  /\ \E i \in docsWithId("job_descriptions", jd) :
                     mongo.job_descriptions[i].content = sbody[s].jobDescription
                /\ \E i \in docsWithId("sample_resumes", sample) :
                     mongo.sample_resumes[i].content = sbody[s].sampleResume
                /\ \E i \in docsWithId("tailored_resumes", tailored) :
                     mongo.tailored_resumes[i].content = sbody[s].tailoredResume
                /\ Cardinality({ jd, sample, tailored }) = 3
                /\ job.id = writes[s][4].id
                /\ job.mongo_job_description_id = toHexString(jd)
                /\ generation.job_id = job.id
                /\ generation.mongo_sample_resume_id = toHexString(sample)
                /\ generation.mongo_tailored_resume_id = toHexString(tailored)

\* the second save request of a run succeeded: its rows carry its own ids,
\* not those of the first
C8_Witness ==
  \E s \in Handlers :
    /\ spc[s] = "done"
    /\ sresponse[s].status = 200
    /\ Len(writes[s]) = 5
    /\ Len(mongo.job_descriptions) = 2
    /\ Len(supabase.jobs) = 2
    /\ supabase.jobs[2].mongo_job_description_id = toHexString(writes[s][1].id)
    /\ supabase.jobs[2].mongo_job_description_id
         # supabase.jobs[1].mongo_job_description_id

\* C9: when a store refuses a write of a save request (one of the three
\* document inserts, the jobs insert or the resume_generations insert), the
\* answer is 500 with the store's message, the refused insert is the last
\* one the request attempts, and every write the request made before it is
\* still in its store: nothing is deleted, so documents without rows, or a
\* jobs row without its resume_generations row, remain.
C9_NoRollback ==
  \A s \in Handlers :
    (sbody[s] \in SaveBodies \ { Null } /\ storeRefused(s)) =>
      /\ sresponse[s] \in StoreFailures
      /\ Len(attempted[s]) <= 5
      /\ attempted[s] = SubSeq(InsertOrder, 1, Len(attempted[s]))
      /\ Len(writes[s]) \in { Len(attempted[s]) - 1, Len(attempted[s]) }
      /\ Len(writes[s]) = Len(attempted[s]) => attempted[s] = << >>
      /\ \A i \in DOMAIN writes[s] :
           /\ writes[s][i].into = InsertOrder[i]
           /\ i <= 3 => docsWithId(writes[s][i].into, writes[s][i].id) # { }
           /\ i = 4 => \E j \in DOMAIN supabase.jobs :
                         supabase.jobs[j].id = writes[s][i].id
      /\ Len(attempted[s]) = 4 =>
           sresponse[s].error \in
             { "Failed to save job metadata: " \o m : m \in SupabaseErrors }
      /\ Len(attempted[s]) = 5 =>
           sresponse[s].error \in
             { "Failed to save resume metadata: " \o m : m \in SupabaseErrors }
      /\ Len(attempted[s]) <= 3 => sresponse[s].error \in MongoErrors

\* the resume_generations insert was refused: three documents and a jobs row
\* of this request remain, with no resume_generations row for them
C9_Witness ==
  \E s \in Handlers :
    /\ spc[s] = "done"
    /\ sresponse[s].status = 500
    /\ Len(attempted[s]) = 5
    /\ Len(writes[s]) = 4
    /\ docsWithId("tailored_resumes", writes[s][3].id) # { }
    /\ \E j \in DOMAIN supabase.jobs : supabase.jobs[j].id = writes[s][4].id
    /\ \A j \in DOMAIN supabase.resume_generations :
         supabase.resume_generations[j].job_id # writes[s][4].id

\* C10: a save request whose userId, jobDescription, sampleResume or
\* tailoredResume is empty or missing is answered 400, and the request calls
\* insert on no collection and no table.
C10_MissingRejected ==
  \A s \in Handlers :
    (spc[s] # "idle" /\ sbody[s] \in SaveBodies \ { Null } /\ ~allPresent(s)) =>
      /\ spc[s] \in { "parsed", "done" }
      /\ spc[s] = "done" => sresponse[s] = [ status |-> 400, error |-> "Missing required fields" ]
      /\ attempted[s] = << >>
      /\ writes[s] = << >>
      /\ ~connecting[s]

\* an empty userId with the three texts present, answered 400 with no insert
C10_Witness ==
  \E s \in Handlers :
    /\ spc[s] = "done"
    /\ sbody[s] # Null
    /\ sbody[s].userId = Str(<< >>)
    /\ ~isMissingField(sbody[s].jobDescription)
    /\ ~isMissingField(sbody[s].sampleResume)
    /\ ~isMissingField(sbody[s].tailoredResume)
    /\ sresponse[s].status = 400
    /\ attempted[s] = << >>

(***************************************************************************)
(* Further properties of the generate-resume endpoint, over Spec.          *)
(***************************************************************************)
\* a field that is missing or shorter than n characters
isShorterThan(v, n) ==
  \/ v.kind = "undefined"
  \/ v.kind = "null"
  \/ v.kind = "string" /\ Len(v.text) < n

\* C11: a request whose job description is missing or under 50 characters,
\* or whose resume is missing or under 100 characters, is answered with a
\* validation error by the generate-resume endpoint, which has then called
\* neither extractKeywords nor pipeline() nor the summarizer.
C11_ShortInputRejected ==
  \A r \in Handlers :
    ( /\ pc[r] \notin { "idle", "parsed" }
      /\ bodyParsed(r)
      /\ body[r].jobDescription.kind # "number"
      /\ \/ isShorterThan(body[r].jobDescription, 50)
         \/ isShorterThan(body[r].resumeText, 100) ) =>
      /\ pc[r] = "done"
      /\ response[r].status = 400
      /\ calls[r] = << >>

\* the places of calls[r] where r called an operation
callsOf(r, op) == { i \in DOMAIN calls[r] : calls[r][i].op = op }

\* C12: within one request the summarizer is called at most once and a model
\* is initialized at most once, for the model the request asked for; a
\* request whose initialization or call failed has made no further call and
\* answers with the fallback response.
C12_NoRetry ==
  \A r \in Handlers :
    /\ Cardinality(callsOf(r, "summarize")) <= 1
    /\ Cardinality(callsOf(r, "pipeline")) <= 1
    /\ \A i \in callsOf(r, "pipeline") : calls[r][i].model = modelName(body[r])
    /\ \A i \in callsOf(r, "summarize") : i = Len(calls[r])
    /\ pc[r] = "init" => callsOf(r, "summarize") = { }
    /\ pc[r] = "call" => Cardinality(callsOf(r, "summarize")) = 1
    /\ summarizerThrew(r) =>
         /\ response[r].service = "Enhanced Original (Fallback)"
         /\ response[r].tailoredResume =
              enhanceResumeWithKeywords(body[r].resumeText.text, keywords[r])

\* the one call of the summarizer threw and the fallback answered
C12_Witness ==
  \E r \in Handlers :
    /\ summarizerThrew(r)
    /\ Cardinality(callsOf(r, "summarize")) = 1
    /\ response[r].service = "Enhanced Original (Fallback)"

(***************************************************************************)
(* The cached model handles under concurrent requests, over SpecRace.      *)
(***************************************************************************)
\* r calls pipeline() in this step
startsPipeline(r) ==
  /\ callsOf(r, "pipeline") = { }
  /\ \E i \in DOMAIN calls'[r] : calls'[r][i].op = "pipeline"

\* the handle is written in this step by a handler whose pipeline() resolves
writtenByLoader(new, alternative) ==
  \E r \in Handlers :
    /\ pc[r] = "init"
    /\ loading[r]
    /\ body[r].useAlternative = alternative
    /\ callsOf(r, "pipeline") # { }
    /\ new = newHandle(r)

\* C13 as stated: once a handle is stored it is never written again,
\* whatever the interleaving of the requests.
C13_NeverWrittenAgain ==
  [][ /\ summarizer # NullHandle => summarizer' = summarizer
      /\ alternativeSummarizer # NullHandle =>
           alternativeSummarizer' = alternativeSummarizer ]_vars

\* C13, amended: a stored handle is never cleared; a request that finds a
\* handle stored does not call pipeline(); a handler that calls the
\* summarizer calls a pipeline, its own or a cached one, and has a handle
\* stored for its model; and the handle is written
\* only by a handler whose own pipeline() call resolves, so that after the
\* first store it is written again only by requests that had called
\* pipeline() before that store, each replacing the pipeline by its own.
C13_HandleMemoized ==
  /\ [](\A r \in Handlers :
          pc[r] = "call" =>
            /\ modelSummarizer[r] # NullHandle
            /\ (IF body[r].useAlternative THEN alternativeSummarizer ELSE summarizer)
                 # NullHandle)
  /\ [][ /\ summarizer # NullHandle => summarizer' # NullHandle
         /\ alternativeSummarizer # NullHandle => alternativeSummarizer' # NullHandle
         /\ \A r \in Handlers :
              startsPipeline(r) =>
                (IF body[r].useAlternative THEN alternativeSummarizer ELSE summarizer)
                  = NullHandle
         /\ summarizer' # summarizer => writtenByLoader(summarizer', FALSE)
         /\ alternativeSummarizer' # alternativeSummarizer =>
              writtenByLoader(alternativeSummarizer', TRUE) ]_vars

\* two first requests raced: both called pipeline() for the same model, and
\* the handle stored by the first was replaced by the second's
C13_Witness ==
  \E r, q \in Handlers :
    /\ r # q
    /\ body[r].useAlternative = body[q].useAlternative
    /\ callsOf(r, "pipeline") # { }
    /\ callsOf(q, "pipeline") # { }
    /\ pc[r] \in { "call", "done" }
    /\ pc[q] \in { "call", "done" }
    /\ callsOf(r, "summarize") # { }
    /\ callsOf(q, "summarize") # { }
    /\ (IF body[q].useAlternative THEN alternativeSummarizer ELSE summarizer)
         = newHandle(q)

(***************************************************************************)
(* C14                                                                     *)
(***************************************************************************)
\* the text handed to the sectioner was made by reconstructResume, and the
\* sections returned for it have been reconstructed as they were returned
roundTripDone == pPc = "rebuilt" /\ pFrom = "reconstructResume"

\* C14: a text produced by reconstructResume (the canned summary paragraph
\* included), sectioned by parseResumeIntoSections and reconstructed at once,
\* comes back with the same labels and the same content lines in the same
\* order, whitespace aside: no line is dropped or moved.
C14_RoundTrip ==
  roundTripDone => resumeLines(pRebuilt) = resumeLines(pText)

(***************************************************************************)
(* The rules of the sectioner's loop, over SpecParse.                      *)
(***************************************************************************)
\* the loop body runs in this step, on nextLine
iterates == pPc = "loop" /\ pIndex < Len(pLines) /\ pIndex' = pIndex + 1

nextLine == pLines[pIndex + 1]

\* the sections after the step are those before it with line + "\n" appended
\* to the section key, every other section unchanged
storedOnlyIn(key, line) ==
  pState'.sections = [ pState.sections EXCEPT ![key] = @ \o line \o << "\n" >> ]

\* a bullet line with one of the soft-skill phrases
softSkillBullet(line) ==
  LET lowerLine == toLowerCase(line)
  IN  /\ Len(line) > 0
      /\ line[1] = Bullet
      /\ \/ includes(lowerLine, <<"c","o","n","t","i","n","u","o","u","s"," ","l","e","a","r","n",
                                  "e","r">>)
         \/ includes(lowerLine, <<"a","v","a","i","l","a","b","l","e"," ","f","o","r">>)
         \/ includes(lowerLine, <<"i","m","m","e","d","i","a","t","e"," ","s","t","a","r","t">>)
         \/ includes(lowerLine, <<"f","l","e","x","i","b","l","e"," ","w","o","r","k">>)
         \/ includes(lowerLine, <<"p","r","o","b","l","e","m","-","s","o","l","v","i","n","g">>)
         \/ includes(lowerLine, <<"c","o","m","m","u","n","i","c","a","t","i","o","n">>)
         \/ includes(lowerLine, <<"t","e","a","m"," ","p","l","a","y","e","r">>)
         \/ includes(lowerLine, <<"a","t","t","e","n","t","i","o","n"," ","t","o"," ","d","e","t",
                                  "a","i","l">>)
         \/ /\ includes(lowerLine, <<"s","t","r","o","n","g">>)
            /\ includes(lowerLine, <<"a","b","i","l","i","t","i","e","s">>) \/ includes(lowerLine, <<
                                                                                                     "s",
                                                                                                     "k",
                                                                                                     "i",
                                                                                                     "l",
                                                                                                     "l",
                                                                                                     "s">>)

\* C17: every bullet line with a soft-skill phrase is stored in additional,
\* whatever the cursor, and in no other section.
C17_SoftSkillsToAdditional ==
  [][ iterates /\ softSkillBullet(nextLine) => storedOnlyIn("additional", nextLine) ]_vars

\* the title substrings of each section, in the order the loop checks them
TitleOrder ==
  << [ section |-> "summary", words |-> { <<"s","u","m","m","a","r","y">> } ],
     [ section |-> "skills", words |-> { <<"s","k","i","l","l","s">> } ],
     [ section |-> "experience", words |-> { <<"e","x","p","e","r","i","e","n","c","e">>, <<"w","o",
                                                                                            "r","k",
                                                                                            " ","h",
                                                                                            "i","s",
                                                                                            "t","o",
                                                                                            "r","y">> } ],
     [ section |-> "education", words |-> { <<"e","d","u","c","a","t","i","o","n">> } ],
     [ section |-> "projects", words |-> { <<"p","r","o","j","e","c","t","s">> } ],
     [ section |-> "certifications", words |-> { <<"c","e","r","t","i","f","i","c","a","t","i","o",
                                                   "n","s">> } ],
     [ section |-> "additional", words |-> { <<"a","d","d","i","t","i","o","n","a","l">> } ] >>

\* the places of TitleOrder with a substring in the lowercased line
titlesIn(line) ==
  { i \in DOMAIN TitleOrder :
      \E w \in TitleOrder[i].words : includes(toLowerCase(line), w) }

firstTitleIn(line) ==
  TitleOrder[CHOOSE i \in titlesIn(line) : \A j \in titlesIn(line) : i <= j].section

\* C18: a line with a section-title substring switches the cursor to the
\* first section of the order summary, skills, experience, education,
\* projects, certifications, additional that it names, and is consumed: no
\* section changes and the header rule does not act on it.
C18_TitleConsumed ==
  [][ iterates /\ titlesIn(nextLine) # { } =>
        /\ pState'.currentSection = firstTitleIn(nextLine)
        /\ pState'.sections = pState.sections
        /\ pState'.headerComplete = pState.headerComplete ]_vars

\* the loop has just consumed a line that names two sections, after it had
\* stored a line, and the cursor is the earlier of the two
C18_Witness ==
  /\ pPc = "loop"
  /\ pIndex > 1
  /\ Cardinality(titlesIn(pLines[pIndex])) > 1
  /\ pState.currentSection = "experience"
  /\ pState.sections.header # << >>
  /\ pState.sections.experience = << >>

\* one of the contact markers is in the line as written
hasContactMarker(line) ==
  \E w \in { <<"@">>, <<"l","i","n","k","e","d","i","n">>, <<"g","i","t","h","u","b">>, <<"p","h",
                                                                                          "o","n",
                                                                                          "e">>, <<
                                                                                                   "e",
                                                                                                   "m",
                                                                                                   "a",
                                                                                                   "i",
                                                                                                   "l">> } : includes(line, w)

namesDeveloper(line) ==
  \E w \in { <<"d","e","v","e","l","o","p","e","r">>, <<"e","n","g","i","n","e","e","r">> } : includes(toLowerCase(line), w)

\* the cursor is header and the header is not complete
inHeader == pState.currentSection = "header" /\ ~pState.headerComplete

\* the resume has no line with a section-title substring
untitled == \A i \in DOMAIN pLines : titlesIn(pLines[i]) = { }

\* the characters stored for the first n lines when each is stored once,
\* followed by "\n"
RECURSIVE storedLength(_, _)
storedLength(lines, n) ==
  IF n = 0 THEN 0 ELSE storedLength(lines, n - 1) + Len(lines[n]) + 1

\* a line met while the cursor is header and the header is not complete,
\* with neither a contact marker nor developer/engineer, the header not
\* being empty: the line that ends the header
endsHeader ==
  /\ iterates
  /\ inHeader
  /\ titlesIn(nextLine) = { }
  /\ ~hasContactMarker(nextLine)
  /\ ~namesDeveloper(nextLine)
  /\ pState.sections.header # << >>

\* while the cursor is header and the header is not complete, a line (not a
\* title line, which the rule before consumes) with a contact marker is
\* appended to header and the header goes on
contactLinesKept ==
  [][ iterates /\ inHeader /\ titlesIn(nextLine) = { } /\ hasContactMarker(nextLine) =>
        /\ storedOnlyIn("header", nextLine)
        /\ pState'.currentSection = "header"
        /\ ~pState'.headerComplete ]_vars

\* on a resume without title lines every line is stored in header, summary
\* or additional, never in skills, experience, education, projects or
\* certifications
untitledFallsThrough ==
  [](untitled =>
       /\ \A key \in { "skills", "experience", "education", "projects",
                       "certifications" } : pState.sections[key] = << >>
       /\ pState.currentSection \in { "header", "summary" }
       /\ Len(pState.sections.header) + Len(pState.sections.summary)
            + Len(pState.sections.additional) = storedLength(pLines, pIndex))

\* C19, with the soft-skill rule: a contact line met in the header is
\* appended to header; the line that ends the header switches the cursor to
\* summary and is stored under summary, unless it is a bullet line with a
\* soft-skill phrase, which is stored under additional and not under
\* summary; and on a resume without title lines every line is stored in
\* header, summary or additional.
C19_HeaderRule ==
  /\ contactLinesKept
  /\ [][ endsHeader =>
           /\ pState'.headerComplete
           /\ pState'.currentSection = "summary"
           /\ IF softSkillBullet(nextLine)
                THEN storedOnlyIn("additional", nextLine)
                ELSE storedOnlyIn("summary", nextLine) ]_vars
  /\ untitledFallsThrough

\* a resume without title lines has been sectioned: its first line is in
\* header, and the soft-skill bullet after it ended the header and is in
\* additional, summary being empty
C19_Witness ==
  /\ pPc = "sectioned"
  /\ untitled
  /\ Len(pLines) = 2
  /\ softSkillBullet(pLines[2])
  /\ ~hasContactMarker(pLines[2])
  /\ pState.sections.header = pLines[1] \o << "\n" >>
  /\ pState.headerComplete
  /\ pState.currentSection = "summary"
  /\ pState.sections.summary = << >>
  /\ pState.sections.additional = pLines[2] \o << "\n" >>

\* C19 as stated: the line that ends the header is stored under summary.
C19_EndStoredInSummary ==
  /\ contactLinesKept
  /\ [][ endsHeader =>
           /\ pState'.headerComplete
           /\ pState'.currentSection = "summary"
           /\ storedOnlyIn("summary", nextLine) ]_vars
  /\ untitledFallsThrough

(***************************************************************************)
(* The text functions, over SpecText.                                      *)
(***************************************************************************)
\* the four conditions on the summarizer's text
usableExternal(text) ==
  LET cleaned == cleanText(text)
  IN  /\ Len(trim(text)) >= 50
      /\ Len(cleaned) >= 100
      /\ ~isGarbledText(cleaned)
      /\ \E label \in { <<"P","R","O","F","E","S","S","I","O","N","A","L">>, <<"E","X","P","E","R",
                                                                               "I","E","N","C","E">>, <<
                                                                                                        "S",
                                                                                                        "K",
                                                                                                        "I",
                                                                                                        "L",
                                                                                                        "L",
                                                                                                        "S">> } :
           includes(cleaned, label)

\* C15: cleanAndStructureText returns the cleaned external text exactly when
\* the raw text has at least 50 characters after trimming, the cleaned text
\* has at least 100 characters, is not garbled and contains one of
\* PROFESSIONAL, EXPERIENCE, SKILLS in capitals; in every other case it
\* returns the output of the heuristic pipeline for the original resume.
C15_UseExternal ==
  fnName = "cleanAndStructureText" =>
    IF usableExternal(fnArg[1])
      THEN fnResult = cleanText(fnArg[1])
      ELSE /\ fnResult = enhanceResumeWithKeywords(fnArg[2], << >>)
           /\ fnResult # cleanText(fnArg[1])

\* a text whose cleaned form has exactly 100 characters and differs from the
\* text itself was returned in its cleaned form
C15_Witness ==
  /\ fnName = "cleanAndStructureText"
  /\ Len(cleanText(fnArg[1])) = 100
  /\ fnArg[1] # cleanText(fnArg[1])
  /\ fnResult = cleanText(fnArg[1])
  /\ fnResult # enhanceResumeWithKeywords(fnArg[2], << >>)

\* n or more consecutive places of the text are all in the set
runOfPlaces(text, n, places) ==
  \E i \in DOMAIN text : \A k \in 0..(n - 1) : i + k \in places

\* the places of the characters that are no letters and no spaces, of those
\* that are no spaces, of the word characters (letters, digits, underscore)
\* and of the symbols that are outside the punctuation allow-list
placesNotAlphabetic(text) ==
  { i \in DOMAIN text : text[i] \notin LowerSet \cup UpperSet \cup SpaceSet }

placesNotSpace(text) == { i \in DOMAIN text : text[i] \notin SpaceSet }

placesWord(text) ==
  { i \in DOMAIN text : text[i] \in LowerSet \cup UpperSet \cup DigitSet \cup { "_" } }

placesSymbol(text) ==
  { i \in DOMAIN text :
      /\ i \notin placesWord(text)
      /\ text[i] \notin SpaceSet
      /\ text[i] \notin { ".", ",", "-", "(", ")", "@", "|", "/", ":" } }

\* C16 as stated: a text is flagged exactly when it has three or more
\* consecutive non-alphabetic non-space characters, or a run of 20 or more
\* characters with no spaces, or two or more consecutive symbols outside the
\* allow-list; 25 identical letters are flagged, an ordinary sentence of 150
\* characters is not.
C16_GarbledAsStated ==
  fnName = "isGarbledText" =>
    /\ fnResult.value <=>
         \/ runOfPlaces(fnArg[1], 3, placesNotAlphabetic(fnArg[1]))
         \/ runOfPlaces(fnArg[1], 20, placesNotSpace(fnArg[1]))
         \/ runOfPlaces(fnArg[1], 2, placesSymbol(fnArg[1]))
    /\ fnArg[1] = SameLetters => fnResult.value
    /\ fnArg[1] = Sentence => ~fnResult.value

\* C16, amended: the second pattern is a run of 20 or more word characters
\* (letters, digits, underscore); a longer run without spaces that is broken
\* by punctuation is not flagged by it.
C16_Garbled ==
  fnName = "isGarbledText" =>
    /\ fnResult.value <=>
         \/ runOfPlaces(fnArg[1], 3, placesNotAlphabetic(fnArg[1]))
         \/ runOfPlaces(fnArg[1], 20, placesWord(fnArg[1]))
         \/ runOfPlaces(fnArg[1], 2, placesSymbol(fnArg[1]))
    /\ fnArg[1] = SameLetters => fnResult.value
    /\ fnArg[1] = Sentence => ~fnResult.value

\* a text with 20 characters and no space, a punctuation mark between its
\* letters, was not flagged
C16_Witness ==
  /\ fnName = "isGarbledText"
  /\ runOfPlaces(fnArg[1], 20, placesNotSpace(fnArg[1]))
  /\ ~runOfPlaces(fnArg[1], 20, placesWord(fnArg[1]))
  /\ fnResult = Bool(FALSE)

\* the keywords of a text when a token that is no stopword is kept if it has
\* four or more letters or is one of the short tokens
keywordsKeeping(text, shortTokens) ==
  LET words == matchWords(toLowerCase(text))
      kept == filterIdx(words, { i \in DOMAIN words :
                                   /\ words[i] \notin stopWords
                                   /\ Len(words[i]) >= 4 \/ words[i] \in shortTokens })
      first == slice(dedupe(kept), 10)
  IN  [ i \in DOMAIN first |-> capitalize(first[i]) ]

\* C20 as stated: the domain-substring filter is dead code: a token is kept
\* if and only if it has at least four letters, so the keyword sequence is
\* the one the length clause alone gives, for every job description.
C20_SubstringsDead ==
  fnName = "extractKeywords" => fnResult = keywordsKeeping(fnArg[1], { })

\* C20, amended: the substring list matters for one token, "css": a token
\* is kept if and only if it has at least four letters or is "css".
C20_SubstringsKeepCss ==
  fnName = "extractKeywords" => fnResult = keywordsKeeping(fnArg[1], { <<"c","s","s">> })

\* a job description with the words css and app gave the keyword Css and
\* not the keyword App
C20_Witness ==
  /\ fnName = "extractKeywords"
  /\ includes(fnArg[1], <<"a","p","p"," ">>)
  /\ \E i \in DOMAIN fnResult : fnResult[i] = <<"C","s","s">>
  /\ \A i \in DOMAIN fnResult : fnResult[i] # <<"A","p","p">>

(***************************************************************************)
(* reconstructResume and the enhancement, over SpecParse.                  *)
(***************************************************************************)
\* reconstructResume has returned
reconstructed == pPc \in { "enhanced", "rebuilt" }

\* the sections in the order of the output, each with its label
SectionLabels ==
  << [ key |-> "header", label |-> << >> ],
     [ key |-> "summary", label |-> <<"P","R","O","F","E","S","S","I","O","N","A","L"," ","S","U",
                                      "M","M","A","R","Y","\n">> ],
     [ key |-> "skills", label |-> <<"T","E","C","H","N","I","C","A","L"," ","S","K","I","L","L",
                                     "S","\n">> ],
     [ key |-> "experience", label |-> <<"P","R","O","F","E","S","S","I","O","N","A","L"," ","E",
                                         "X","P","E","R","I","E","N","C","E","\n">> ],
     [ key |-> "education", label |-> <<"E","D","U","C","A","T","I","O","N","\n">> ],
     [ key |-> "projects", label |-> <<"P","R","O","J","E","C","T","S","\n">> ],
     [ key |-> "certifications", label |-> <<"C","E","R","T","I","F","I","C","A","T","I","O","N",
                                             "S","\n">> ],
     [ key |-> "additional", label |-> <<"A","D","D","I","T","I","O","N","A","L"," ","I","N","F",
                                         "O","R","M","A","T","I","O","N","\n">> ] >>

\* the section has a character that is no whitespace
populated(sections, key) ==
  \E i \in DOMAIN sections[key] : sections[key][i] \notin SpaceSet

\* the lines of the section as they are emitted: the trimmed text, and for
\* the skills the lines of it that the clean-up keeps
emitted(sections, key) ==
  IF key = "skills"
    THEN LET ls == splitLines(trim(sections.skills))
         IN  joinLines(filterIdx(ls, { i \in DOMAIN ls : keepSkillLine(ls[i]) }))
    ELSE trim(sections[key])

\* the populated sections in the fixed order, each under its label and
\* followed by a blank line
blocksOf(sections) ==
  flatten([ i \in DOMAIN SectionLabels |->
              IF populated(sections, SectionLabels[i].key)
                THEN SectionLabels[i].label
                       \o emitted(sections, SectionLabels[i].key) \o <<"\n","\n">>
                ELSE << >> ])

\* C21: the text of reconstructResume is made of the populated sections in
\* the order header, summary, skills, experience, education, projects,
\* certifications, additional, each under its uppercase label and followed
\* by a blank line; a section that is empty or holds whitespace only leaves
\* no label and no blank line; nothing follows the last populated section.
C21_SectionOrder ==
  reconstructed =>
    /\ pRebuilt = trim(blocksOf(pSections))
    /\ \A i \in 2..Len(SectionLabels) :
         ~populated(pSections, SectionLabels[i].key) =>
           ~includes(pRebuilt, SectionLabels[i].label)
    /\ pRebuilt # << >> => pRebuilt[Len(pRebuilt)] \notin SpaceSet

\* sections with a name, a summary of blanks alone, skills, no experience
\* and an education were reconstructed: the text has the skills and the
\* education under their labels, a blank line between them
C21_Witness ==
  /\ pPc = "rebuilt"
  /\ pFrom = "sections"
  /\ pSections.header # << >>
  /\ pSections.summary = <<" ","\n">>
  /\ pSections.experience = << >>
  /\ pSections.additional # << >>
  /\ includes(pRebuilt, <<"J","a","n","e"," ","R","o","e","\n","\n","T","E","C","H","N","I","C","A",
                          "L"," ","S","K","I","L","L","S","\n">>)
  /\ includes(pRebuilt, <<"\n","\n","E","D","U","C","A","T","I","O","N","\n","B","S","c","\n","\n">>)

\* C22: the enhancement rewrites summary, skills and experience only: the
\* header, education, projects, certifications and additional sections
\* handed to reconstructResume are those parseResumeIntoSections returned,
\* for every resume and every keyword list.
C22_OtherSectionsUnchanged ==
  pPc = "enhanced" =>
    \A key \in { "header", "education", "projects", "certifications", "additional" } :
      pSections[key] = pState.sections[key]

\* a resume with a header and an additional section was enhanced: summary,
\* skills and experience were all rewritten, the other sections are as
\* they were returned
C22_Witness ==
  /\ pPc = "enhanced"
  /\ pState.sections.header # << >>
  /\ pState.sections.additional # << >>
  /\ pSections.summary # pState.sections.summary
  /\ pSections.skills # pState.sections.skills
  /\ pSections.experience # pState.sections.experience
  /\ pSections.header = pState.sections.header
  /\ pSections.additional = pState.sections.additional

(***************************************************************************)
(* The order of the writes of a save, over SpecSave.                       *)
(***************************************************************************)
\* C23: the writes of a save happen in a fixed order, each gated on the ones
\* before it: an insert is attempted only when every earlier insert of the
\* request succeeded, so the metadata store is written only after the three
\* document inserts and resume_generations only after jobs, whose id it
\* references; a success response is sent only after all five succeeded.
C23_WritesGated ==
  \A s \in Handlers :
    LET tried == attempted[s]
        done == writes[s]
    IN  /\ Len(tried) <= 5
        /\ tried = SubSeq(InsertOrder, 1, Len(tried))
        /\ Len(done) <= Len(tried)
        /\ Len(tried) <= Len(done) + 1
        /\ [ i \in DOMAIN done |-> done[i].into ] = SubSeq(InsertOrder, 1, Len(done))
        /\ Len(done) >= 4 => jobData[s] = done[4].id
        /\ Len(done) = 5 =>
             supabase.resume_generations[done[5].id].job_id = done[4].id
        /\ sresponse[s].status = 200 => Len(done) = 5

\* the insert into jobs of a request failed after its three documents were
\* written: resume_generations was not attempted and the answer is a 500
C23_Witness ==
  \E s \in Handlers :
    /\ spc[s] = "done"
    /\ attempted[s] = SubSeq(InsertOrder, 1, 4)
    /\ Len(writes[s]) = 3
    /\ sresponse[s].status = 500
    /\ supabase.resume_generations = << >>
    /\ mongo.tailored_resumes # << >>

(***************************************************************************)
(* The connection of the document store under concurrent saves, over       *)
(* SpecSaveRace.                                                           *)
(***************************************************************************)
\* C24: client.connect() is invoked at most once per process, whatever the
\* number and the interleaving of the calls that need the connection.
C24_ConnectedOnce == connects <= 1

\* C25: the saved flag is true only while the displayed result is the one
\* whose save request succeeded: the save that set it was started on the
\* result now displayed, whatever Save and Generate clicks came between.
C25_SavedMarksShown ==
  component.saved => ( component.result # Null /\ history.savedShown )

\* C26: the job description and the sample resume of a save request are the
\* trimmed texts sent in the generate request that produced the result
\* being saved.
C26_SaveSendsGenerated ==
  saveRequest # NoRequest =>
    /\ saveRequest.jobDescription = history.saving.jobDescription
    /\ saveRequest.sampleResume = history.saving.resumeText

\* a step in which the generate request settles
generateSettled == generateRequest # NoRequest /\ generateRequest' = NoRequest

\* the displayed result after the step has its match score in [0, 100]
scoreClamped ==
  /\ component'.result # Null
  /\ component'.result.matchScore >= 0
  /\ component'.result.matchScore <= 100

\* C27: loading is true exactly while the generate request is in flight and
\* is reset to false once it settles, which it does on every path; when the
\* request settles exactly one of the two holds, the result is non-null
\* with its match score in [0, 100] and error is empty, or error is
\* non-empty and the result is null.
C27_SettlesAsStated ==
  /\ [](component.loading <=> generateRequest # NoRequest)
  /\ (component.loading ~> ~component.loading)
  /\ [][ generateSettled =>
           /\ ~component'.loading
           /\ ( scoreClamped /\ component'.error = "" )
                # ( component'.error # "" /\ component'.result = Null ) ]_vars

(***************************************************************************)
(* The lines of the sectioner, over SpecParse.                             *)
(***************************************************************************)
\* the title lines among the first n lines
titleLines(n) == { i \in 1..n : titlesIn(pLines[i]) # { } }

\* the lines stored in a section: each ends with "\n"
storedLines(section) == { i \in DOMAIN section : section[i] = "\n" }

\* the lines stored in the first n sections together
RECURSIVE storedInAll(_, _)
storedInAll(sections, n) ==
  IF n = 0 THEN 0
  ELSE Cardinality(storedLines(sections[SectionNames[n]])) + storedInAll(sections, n - 1)

\* C28: parseResumeIntoSections conserves the lines.  The lines are the
\* non-empty trimmed lines of the resume; an iteration on a title line
\* stores nothing, an iteration on any other line appends it, followed by
\* "\n", to the end of exactly one of the eight sections and leaves the
\* other seven alone; so the stored lines and the title lines together
\* number the lines handled.
C28_LinesConserved ==
  /\ [][ iterates =>
           IF titlesIn(nextLine) # { }
           THEN pState'.sections = pState.sections
           ELSE \E key \in DOMAIN pState.sections : storedOnlyIn(key, nextLine) ]_vars
  /\ []( /\ \A i \in DOMAIN pLines : pLines[i] # << >> /\ trim(pLines[i]) = pLines[i]
         /\ storedInAll(pState.sections, Len(SectionNames))
              + Cardinality(titleLines(pIndex)) = pIndex )

\* a resume of four or more lines is sectioned: a title line was consumed
\* and lines were stored in three sections or more
C28_Witness ==
  /\ pPc = "sectioned"
  /\ pFrom = "raw"
  /\ Len(pLines) >= 4
  /\ titleLines(Len(pLines)) # { }
  /\ Cardinality({ key \in DOMAIN pState.sections : pState.sections[key] # << >> }) >= 3

(***************************************************************************)
(* The labels of the reconstructed text, over SpecParse.                   *)
(***************************************************************************)
\* the seven labels as lines
LabelLines ==
  { SubSeq(SectionLabels[i].label, 1, Len(SectionLabels[i].label) - 1) :
      i \in 2..Len(SectionLabels) }

\* C29: in the text of reconstructResume every section label is followed
\* by at least one content line: the line after a label line exists, is
\* not blank and is not another label.
C29_LabelsHaveContent ==
  reconstructed =>
    LET lines == splitLines(pRebuilt)
    IN  \A i \in DOMAIN lines :
          lines[i] \in LabelLines =>
            /\ i < Len(lines)
            /\ trim(lines[i + 1]) # << >>
            /\ lines[i + 1] \notin LabelLines

(***************************************************************************)
(* The cleaned text of cleanAndStructureText, over SpecText.               *)
(***************************************************************************)
\* the places of the digits and of the allowed punctuation characters
placesDigitOrPunct(text) ==
  { i \in DOMAIN text :
      text[i] \in DigitSet \cup { ".", ",", "-", "(", ")", "@", "|", "/", ":" } }

\* the places of the characters that are no word characters, no spaces and
\* no allowed punctuation
placesOutsideAllowList(text) ==
  { i \in DOMAIN text :
      text[i] \notin LowerSet \cup UpperSet \cup DigitSet \cup SpaceSet
                       \cup { "_", ".", ",", "-", "(", ")", "@", "|", "/", ":" } }

\* the text is long enough and carries a label: only isGarbledText can
\* reject it
onlyGarbledRejects(text, cleaned) ==
  /\ Len(trim(text)) >= 50
  /\ Len(cleaned) >= 100
  /\ \/ includes(cleaned, <<"P","R","O","F","E","S","S","I","O","N","A","L">>)
     \/ includes(cleaned, <<"E","X","P","E","R","I","E","N","C","E">>)
     \/ includes(cleaned, <<"S","K","I","L","L","S">>)

\* C30: the cleaned text of cleanAndStructureText holds no symbol outside
\* the allow-list, so the third pattern of isGarbledText cannot match it;
\* a cleaned text that nothing else rejects is rejected exactly when it has
\* three consecutive characters that are no letters and no spaces or twenty
\* consecutive word characters; and a cleaned text with three consecutive
\* digits or allowed punctuation characters is rejected.  Rejected: the
\* cleaned text is not what cleanAndStructureText returns.
C30_CleanedHasNoSymbols ==
  fnName = "cleanAndStructureText" =>
    \A cleaned \in { cleanText(fnArg[1]) } :
      \A symbols \in { placesOutsideAllowList(cleaned) },
         others \in { placesNotAlphabetic(cleaned) },
         words \in { placesWord(cleaned) },
         marks \in { placesDigitOrPunct(cleaned) } :
        /\ symbols = { }
        /\ ~runOfPlaces(cleaned, 2, symbols)
        /\ onlyGarbledRejects(fnArg[1], cleaned) =>
             ( fnResult # cleaned <=>
                 \/ runOfPlaces(cleaned, 3, others)
                 \/ runOfPlaces(cleaned, 20, words) )
        /\ runOfPlaces(cleaned, 3, marks) => fnResult # cleaned

\* a text with two consecutive symbols outside the allow-list was cleaned
\* and accepted
C30_Witness ==
  /\ fnName = "cleanAndStructureText"
  /\ runOfPlaces(fnArg[1], 2, placesOutsideAllowList(fnArg[1]))
  /\ fnResult = cleanText(fnArg[1])
  /\ Len(fnResult) >= 100

\* a text whose cleaned form has three consecutive digits, and that nothing
\* else rejects, was rejected
C30_WitnessDigits ==
  /\ fnName = "cleanAndStructureText"
  /\ onlyGarbledRejects(fnArg[1], cleanText(fnArg[1]))
  /\ includes(cleanText(fnArg[1]), <<"7","7","7">>)
  /\ fnResult # cleanText(fnArg[1])
  /\ includes(fnResult, <<"J","o","h","n"," ","D","o","e">>)
====
